---- MODULE Spec2Model ----
(***************************************************************************)
(* Battle engine (src/battle_engine_v2.py): the registry of live battles,  *)
(* action registration, turn resolution, forced switches and teardown.     *)
(* Python indices are kept 0-based: slot i of a party is party[i + 1].     *)
(* None is NoBattler for a battler id, NoIndex for a party index and       *)
(* "none" for a string.                                                    *)
(***************************************************************************)
EXTENDS Integers, Sequences, FiniteSets, TLC

VARIABLES active_battles, created, enhanced, last

vars == <<active_battles, created, enhanced, last>>

----------------------------------------------------------------------------
(* Bounds of the model                                                     *)

MaxTurn == 3

MaxDamage == 3

----------------------------------------------------------------------------
(* Identifiers                                                             *)

BattleIds == {1, 2}

TrainerId == 1

RivalId == 2

StrangerId == 3

WildId == -1

NpcId == -1000

NoBattler == 0

NoIndex == -1

BasicDamage == 10

SwitchClass == 100

ItemClass == 90

FixedSpeed == 999

----------------------------------------------------------------------------
(* Generic helpers                                                         *)

Max(a, b) == IF a >= b THEN a ELSE b

Min(a, b) == IF a <= b THEN a ELSE b

Range(s) == {s[i] : i \in DOMAIN s}

\* Python's round() on the non-negative rational n / d: nearest integer,
\* a tie going to the even neighbour.
RoundHalfEven(n, d) ==
    LET q == n \div d
        r == n % d
    IN  IF 2 * r < d THEN q
        ELSE IF 2 * r > d THEN q + 1
        ELSE IF q % 2 = 0 THEN q ELSE q + 1

\* math.ceil of the non-negative rational n / d.
CeilDiv(n, d) == (n + d - 1) \div d

\* A local variable: v is computed once and F continues with its value.
Let(v, F(_)) == CHOOSE r \in {F(x) : x \in {v}} : TRUE

----------------------------------------------------------------------------
(* Injected read-only tables                                               *)

\* moves_db.get_move: "none" stands for the None of an unknown id.
MovesDB ==
    [tackle       |-> [id |-> "tackle", type |-> "normal", category |-> "physical",
                       priority |-> 0],
     quick_attack |-> [id |-> "quick_attack", type |-> "normal", category |-> "physical",
                       priority |-> 1],
     stealth_rock |-> [id |-> "stealth_rock", type |-> "rock", category |-> "status",
                       priority |-> 0],
     fissure      |-> [id |-> "fissure", type |-> "ground", category |-> "physical",
                       priority |-> 0],
     struggle     |-> [id |-> "struggle", type |-> "normal", category |-> "physical",
                       priority |-> 0],
     counter      |-> [id |-> "counter", type |-> "fighting", category |-> "physical",
                       priority |-> -5]]

KnownMove(move_id) == move_id \in DOMAIN MovesDB

\* ruleset_handler.is_move_allowed under the default ruleset.
BannedMoves == {"fissure"}

IsMoveAllowed(move_id) == move_id \notin BannedMoves

NoEffect ==
    [locks_move |-> FALSE, blocks_status_moves |-> FALSE, recoil_percent |-> 0,
     heal_percent |-> 0, stat |-> "none", mult_num |-> 1, mult_den |-> 1,
     power_num |-> 1, power_den |-> 1, has_power |-> FALSE, type |-> "none",
     prevents_ko |-> FALSE, requires_full_hp |-> FALSE, one_time_use |-> FALSE,
     trigger |-> "none"]

\* items_db.get_item: effect_data of each item; multipliers are rationals.
ItemsDB ==
    [life_orb     |-> [NoEffect EXCEPT !.recoil_percent = 10, !.has_power = TRUE,
                                       !.power_num = 13, !.power_den = 10],
     leftovers    |-> [NoEffect EXCEPT !.heal_percent = 6],
     choice_scarf |-> [NoEffect EXCEPT !.locks_move = TRUE, !.stat = "speed",
                                       !.mult_num = 3, !.mult_den = 2],
     focus_sash   |-> [NoEffect EXCEPT !.requires_full_hp = TRUE, !.one_time_use = TRUE,
                                       !.trigger = "before_damage"],
     assault_vest |-> [NoEffect EXCEPT !.blocks_status_moves = TRUE, !.stat = "sp_defense",
                                       !.mult_num = 3, !.mult_den = 2]]

\* type_chart['rock'][t] as a rational <<num, den>>; a type without an
\* entry leaves the product unchanged.  The chart is the caller's: shadow
\* stands for a type the chart makes immune to rock.
RockChart ==
    [normal |-> <<1, 1>>, flying |-> <<2, 1>>, steel |-> <<1, 2>>,
     fire |-> <<2, 1>>, fighting |-> <<1, 2>>, ground |-> <<1, 2>>,
     shadow |-> <<0, 1>>]

----------------------------------------------------------------------------
(* Combatants and the held-item manager                                    *)

\* A move slot of a combatant: {move_id, pp, max_pp}.
Slot(move_id, pp, max_pp) == [move_id |-> move_id, pp |-> pp, max_pp |-> max_pp]

\* A combatant with its runtime attributes (_consumed_items,
\* _choice_locked_move, status_manager, stat_stages).
Mon(species, max_hp, speed, held_item, moves) ==
    [species |-> species, max_hp |-> max_hp, current_hp |-> max_hp,
     speed |-> speed, held_item |-> held_item, moves |-> moves,
     consumed_items |-> {}, choice_locked_move |-> "none",
     types |-> <<"normal">>, ability |-> "none",
     has_status_manager |-> FALSE, volatile_statuses |-> {},
     major_status |-> "none", speed_stage |-> 0]

_is_consumed(pokemon, item_id) == item_id \in pokemon.consumed_items

_consume(pokemon, item_id) ==
    [pokemon EXCEPT !.consumed_items = @ \cup {item_id}]

\* The item lookup without the consumed-items check.
_get_item_IgnoreConsumed(pokemon) ==
    IF pokemon.held_item = "none" THEN "none"
    ELSE IF pokemon.held_item \notin DOMAIN ItemsDB THEN "none"
    ELSE pokemon.held_item

\* The id of the item the manager sees, "none" when there is none, it was
\* consumed, or the items database does not know it.
_get_item(pokemon) ==
    IF pokemon.held_item = "none" THEN "none"
    ELSE IF _is_consumed(pokemon, pokemon.held_item) THEN "none"
    ELSE IF pokemon.held_item \notin DOMAIN ItemsDB THEN "none"
    ELSE pokemon.held_item

\* The restriction check without the choice lock.
check_move_restrictions_NoLock(pokemon, move_data) ==
    LET item == _get_item(pokemon) IN
    IF item = "none" THEN "none"
    ELSE IF ItemsDB[item].blocks_status_moves /\ move_data.category = "status"
         THEN "blocks_status"
         ELSE "none"

\* "none", or the kind of refusal.
check_move_restrictions(pokemon, move_data) ==
    LET item == _get_item(pokemon) IN
    IF item = "none" THEN "none"
    ELSE LET effect == ItemsDB[item] IN
         IF effect.blocks_status_moves /\ move_data.category = "status"
         THEN "blocks_status"
         ELSE IF effect.locks_move
                 /\ pokemon.choice_locked_move # "none"
                 /\ move_data.id # pokemon.choice_locked_move
         THEN "locked"
         ELSE "none"

register_move_use(pokemon, move_data) ==
    LET item == _get_item(pokemon) IN
    IF item = "none" THEN pokemon
    ELSE IF ItemsDB[item].locks_move
         THEN [pokemon EXCEPT !.choice_locked_move = move_data.id]
         ELSE pokemon

clear_choice_lock(pokemon) == [pokemon EXCEPT !.choice_locked_move = "none"]

\* The multiplier as a rational <<num, den>>.
_power_multiplier(pokemon, move_data) ==
    LET item == _get_item(pokemon) IN
    IF item = "none" THEN <<1, 1>>
    ELSE LET effect == ItemsDB[item]
             m1 == IF effect.type # "none"
                   THEN IF move_data.type = effect.type
                        THEN <<effect.power_num, effect.power_den>> ELSE <<1, 1>>
                   ELSE IF effect.has_power
                        THEN <<effect.power_num, effect.power_den>> ELSE <<1, 1>>
             m2 == IF (effect.stat = "attack" /\ move_data.category = "physical")
                      \/ (effect.stat = "sp_attack" /\ move_data.category = "special")
                   THEN <<effect.mult_num, effect.mult_den>> ELSE <<1, 1>>
         IN  <<m1[1] * m2[1], m1[2] * m2[2]>>

_defense_multiplier(pokemon, move_data) ==
    LET item == _get_item(pokemon) IN
    IF item = "none" THEN <<1, 1>>
    ELSE LET effect == ItemsDB[item] IN
         IF effect.stat = "sp_defense" /\ move_data.category = "special"
         THEN <<effect.mult_num, effect.mult_den>> ELSE <<1, 1>>

\* [damage, defender, hung_on]: the capped damage, the defender with the
\* item possibly consumed, and whether the survival message is produced.
_try_focus_items(defender, damage) ==
    LET item == _get_item(defender)
        same == [damage |-> damage, defender |-> defender, hung_on |-> FALSE]
    IN
    IF damage < defender.current_hp \/ defender.current_hp <= 0 THEN same
    ELSE IF item = "none" THEN same
    ELSE LET effect == ItemsDB[item] IN
         IF effect.trigger # "none" /\ effect.trigger # "before_damage" THEN same
         ELSE IF ~(effect.prevents_ko \/ effect.requires_full_hp) THEN same
         ELSE IF effect.requires_full_hp /\ defender.current_hp < defender.max_hp THEN same
         ELSE IF defender.current_hp <= 1 THEN same
         ELSE [damage |-> defender.current_hp - 1,
               defender |-> IF effect.one_time_use THEN _consume(defender, item)
                            ELSE defender,
               hung_on |-> TRUE]

modify_damage(attacker, defender, move_data, damage) ==
    IF damage <= 0
    THEN [damage |-> damage, defender |-> defender, hung_on |-> FALSE]
    ELSE LET pm == _power_multiplier(attacker, move_data)
             d1 == RoundHalfEven(damage * pm[1], pm[2])
             dm == _defense_multiplier(defender, move_data)
             d2 == IF dm[1] > dm[2] THEN Max(1, CeilDiv(d1 * dm[2], dm[1])) ELSE d1
         IN  _try_focus_items(defender, d2)

\* [attacker, recoil]: the attacker after lock registration and recoil, and
\* the recoil narrated (0 when none).
apply_after_damage(attacker, move_data, dealt_damage) ==
    LET item == _get_item(attacker) IN
    IF item = "none" THEN [attacker |-> attacker, recoil |-> 0]
    ELSE LET locked == register_move_use(attacker, move_data)
             effect == ItemsDB[item]
         IN  IF dealt_damage <= 0 THEN [attacker |-> locked, recoil |-> 0]
             ELSE IF effect.recoil_percent # 0
             THEN LET recoil == Max(1, RoundHalfEven(attacker.max_hp * effect.recoil_percent, 100))
                  IN  [attacker |-> [locked EXCEPT !.current_hp = Max(0, @ - recoil)],
                       recoil |-> recoil]
             ELSE [attacker |-> locked, recoil |-> 0]

\* [pokemon, healed]: the combatant after the passive heal and whether the
\* heal is narrated.
process_end_of_turn(pokemon) ==
    LET item == _get_item(pokemon) IN
    IF item = "none" THEN [pokemon |-> pokemon, healed |-> FALSE]
    ELSE LET heal_percent == ItemsDB[item].heal_percent IN
         IF heal_percent = 0 \/ pokemon.current_hp <= 0
            \/ pokemon.current_hp >= pokemon.max_hp
         THEN [pokemon |-> pokemon, healed |-> FALSE]
         ELSE LET heal == Max(1, RoundHalfEven(pokemon.max_hp * heal_percent, 100))
              IN  [pokemon |-> [pokemon EXCEPT !.current_hp = Min(pokemon.max_hp, @ + heal)],
                   healed |-> TRUE]

get_speed_multiplier(pokemon) ==
    LET item == _get_item(pokemon) IN
    IF item = "none" THEN <<1, 1>>
    ELSE IF ItemsDB[item].stat = "speed"
         THEN <<ItemsDB[item].mult_num, ItemsDB[item].mult_den>>
         ELSE <<1, 1>>

\* calculator.get_speed is the raw stat when no stage or status changes it.
_get_effective_speed(pokemon) ==
    LET sm == get_speed_multiplier(pokemon)
    IN  RoundHalfEven(pokemon.speed * sm[1], sm[2])

----------------------------------------------------------------------------
(* Battler and BattleState                                                 *)

Sides == {"trainer", "opponent"}

OtherSide(side) == IF side = "trainer" THEN "opponent" ELSE "trainer"

HazardKinds == {"stealth_rock", "spikes", "toxic_spikes", "sticky_web"}

\* A hazard map: the layer count of each kind, 0 for a kind that has no
\* entry; the map is empty (falsy) when every kind is 0.
NoHazards == [k \in HazardKinds |-> 0]

\* Battler.get_active_pokemon as the sequence of party indices it keeps.
ActiveIndices(battler) ==
    SelectSeq(battler.active_positions, LAMBDA i : i < Len(battler.party))

get_active_pokemon(battler) ==
    LET idx == ActiveIndices(battler)
    IN  [k \in 1..Len(idx) |-> battler.party[idx[k] + 1]]

has_usable_pokemon(battler) ==
    \E i \in DOMAIN battler.party : battler.party[i].current_hp > 0

\* The branch every handler uses to find the side of a battler id.
SideOf(battle, battler_id) ==
    IF battler_id = battle.trainer.battler_id THEN "trainer" ELSE "opponent"

\* pending_actions is a dict: insertion-ordered [key, action] entries.
HasKey(d, k) == \E i \in DOMAIN d : d[i].key = k

DictGet(d, k) == d[CHOOSE i \in DOMAIN d : d[i].key = k].action

DictSet(d, k, a) ==
    IF HasKey(d, k)
    THEN [i \in DOMAIN d |-> IF d[i].key = k THEN [key |-> k, action |-> a] ELSE d[i]]
    ELSE Append(d, [key |-> k, action |-> a])

DictPop(d, k) == SelectSeq(d, LAMBDA e : e.key # k)

DictValues(d) == [i \in DOMAIN d |-> d[i].action]

BattleAction(action_type, battler_id, move_id, switch_to_position) ==
    [action_type |-> action_type, battler_id |-> battler_id, move_id |-> move_id,
     target_position |-> 0, switch_to_position |-> switch_to_position,
     item_id |-> IF action_type = "item" THEN "potion" ELSE "none"]

Msg(kind, who, what) == [kind |-> kind, who |-> who, what |-> what]

----------------------------------------------------------------------------
(* Hazard engine                                                           *)

has_type(pokemon, t) == \E i \in DOMAIN pokemon.types : pokemon.types[i] = t

\* A grounded test that looks at the types only.
is_grounded_TypeOnly(pokemon) == ~has_type(pokemon, "flying")

is_grounded(pokemon) == ~has_type(pokemon, "flying") /\ pokemon.ability # "levitate"

RECURSIVE RockEff(_, _)
\* The product of chart['rock'][t] over the types, as a rational.
RockEff(types, i) ==
    IF i > Len(types) THEN <<1, 1>>
    ELSE LET rest == RockEff(types, i + 1)
             m == IF types[i] \in DOMAIN RockChart THEN RockChart[types[i]] ELSE <<1, 1>>
         IN  <<m[1] * rest[1], m[2] * rest[2]>>

\* Stealth rock damage rounded up from max_hp / 8 * eff.
StealthRockDamage_Ceil(pokemon) ==
    LET eff == RockEff(pokemon.types, 1)
    IN  IF eff[1] > 0 THEN Max(1, CeilDiv(pokemon.max_hp * eff[1], 8 * eff[2])) ELSE 0

StealthRockDamage(pokemon) ==
    LET eff == RockEff(pokemon.types, 1)
        base == Max(1, pokemon.max_hp \div 8)
    IN  IF eff[1] > 0 THEN Max(1, (base * eff[1]) \div eff[2]) ELSE 0

SpikesDamage(pokemon, count) ==
    LET layers == Min(3, count)
        den == IF layers = 1 THEN 8 ELSE IF layers = 2 THEN 6 ELSE 4
    IN  Max(1, pokemon.max_hp \div den)

\* status_manager.can_apply_status / apply_status: a major status is taken
\* only by a combatant that has none.
ApplyStatus(pokemon, status) ==
    IF pokemon.major_status = "none"
    THEN [pokemon EXCEPT !.major_status = status]
    ELSE pokemon

\* Entry hazards whose sticky web lowers the speed stage without a floor.
_apply_entry_hazards_NoFloor(battle, side, idx) ==
    LET hz == IF side = "opponent" THEN battle.opponent_hazards ELSE battle.trainer_hazards
        p0 == battle[side].party[idx + 1]
        grounded == is_grounded(p0)
        rockOn == hz["stealth_rock"] > 0
        rockDmg == IF rockOn THEN StealthRockDamage(p0) ELSE 0
        p1 == IF rockDmg > 0 THEN [p0 EXCEPT !.current_hp = Max(0, @ - rockDmg)] ELSE p0
        m1 == IF rockDmg > 0 THEN <<Msg("stealth_rock", p0.species, "hurt")>> ELSE << >>
        spikesOn == grounded /\ hz["spikes"] > 0
        spikesDmg == IF spikesOn THEN SpikesDamage(p0, hz["spikes"]) ELSE 0
        p2 == IF spikesOn THEN [p1 EXCEPT !.current_hp = Max(0, @ - spikesDmg)] ELSE p1
        m2 == IF spikesOn THEN <<Msg("spikes", p0.species, "hurt")>> ELSE << >>
        toxicOn == hz["toxic_spikes"] > 0 /\ grounded
        absorbs == toxicOn /\ has_type(p0, "poison")
        poisons == toxicOn /\ ~has_type(p0, "poison") /\ ~has_type(p0, "steel")
                   /\ p0.has_status_manager
        status == IF Min(2, hz["toxic_spikes"]) >= 2 THEN "tox" ELSE "psn"
        p3 == IF poisons THEN ApplyStatus(p2, status) ELSE p2
        m3 == IF absorbs THEN <<Msg("absorbed", p0.species, "toxic_spikes")>>
              ELSE IF poisons /\ p3 # p2 THEN <<Msg("status", p0.species, status)>>
              ELSE << >>
        webOn == hz["sticky_web"] > 0 /\ grounded
        p4 == IF webOn THEN [p3 EXCEPT !.speed_stage = @ - 1] ELSE p3
        m4 == IF webOn THEN <<Msg("speed_fell", p0.species, "sticky_web")>> ELSE << >>
        hz2 == IF absorbs THEN [hz EXCEPT !["toxic_spikes"] = 0] ELSE hz
        b1 == [battle EXCEPT ![side].party[idx + 1] = p4]
        b2 == IF side = "opponent" THEN [b1 EXCEPT !.opponent_hazards = hz2]
              ELSE [b1 EXCEPT !.trainer_hazards = hz2]
    IN  IF hz = NoHazards THEN [battle |-> battle, messages |-> << >>]
        ELSE [battle |-> b2, messages |-> m1 \o m2 \o m3 \o m4]

\* [battle, messages] after the hazards of the side were applied to the
\* combatant in party slot idx of that side.
_apply_entry_hazards(battle, side, idx) ==
    LET hz == IF side = "opponent" THEN battle.opponent_hazards ELSE battle.trainer_hazards
        p0 == battle[side].party[idx + 1]
        grounded == is_grounded(p0)
        rockOn == hz["stealth_rock"] > 0
        rockDmg == IF rockOn THEN StealthRockDamage(p0) ELSE 0
        p1 == IF rockDmg > 0 THEN [p0 EXCEPT !.current_hp = Max(0, @ - rockDmg)] ELSE p0
        m1 == IF rockDmg > 0 THEN <<Msg("stealth_rock", p0.species, "hurt")>> ELSE << >>
        spikesOn == grounded /\ hz["spikes"] > 0
        spikesDmg == IF spikesOn THEN SpikesDamage(p0, hz["spikes"]) ELSE 0
        p2 == IF spikesOn THEN [p1 EXCEPT !.current_hp = Max(0, @ - spikesDmg)] ELSE p1
        m2 == IF spikesOn THEN <<Msg("spikes", p0.species, "hurt")>> ELSE << >>
        toxicOn == hz["toxic_spikes"] > 0 /\ grounded
        absorbs == toxicOn /\ has_type(p0, "poison")
        poisons == toxicOn /\ ~has_type(p0, "poison") /\ ~has_type(p0, "steel")
                   /\ p0.has_status_manager
        status == IF Min(2, hz["toxic_spikes"]) >= 2 THEN "tox" ELSE "psn"
        p3 == IF poisons THEN ApplyStatus(p2, status) ELSE p2
        m3 == IF absorbs THEN <<Msg("absorbed", p0.species, "toxic_spikes")>>
              ELSE IF poisons /\ p3 # p2 THEN <<Msg("status", p0.species, status)>>
              ELSE << >>
        webOn == hz["sticky_web"] > 0 /\ grounded
        p4 == IF webOn THEN [p3 EXCEPT !.speed_stage = Max(-6, @ - 1)] ELSE p3
        m4 == IF webOn THEN <<Msg("speed_fell", p0.species, "sticky_web")>> ELSE << >>
        hz2 == IF absorbs THEN [hz EXCEPT !["toxic_spikes"] = 0] ELSE hz
        b1 == [battle EXCEPT ![side].party[idx + 1] = p4]
        b2 == IF side = "opponent" THEN [b1 EXCEPT !.opponent_hazards = hz2]
              ELSE [b1 EXCEPT !.trainer_hazards = hz2]
    IN  IF hz = NoHazards THEN [battle |-> battle, messages |-> << >>]
        ELSE [battle |-> b2, messages |-> m1 \o m2 \o m3 \o m4]

----------------------------------------------------------------------------
(* Inputs: the parties callers bring and the actions they submit           *)

Pika == Mon("pika", 3, 90, "life_orb", <<Slot("tackle", 2, 2), Slot("quick_attack", 1, 1)>>)

Bulba == Mon("bulba", 2, 60, "choice_scarf", <<Slot("tackle", 1, 2), Slot("stealth_rock", 1, 1)>>)

Rat == Mon("rat", 2, 90, "life_orb", <<Slot("tackle", 1, 1)>>)

Onix == [Mon("onix", 3, 30, "leftovers", <<Slot("tackle", 0, 1)>>) EXCEPT
            !.has_status_manager = TRUE, !.major_status = "psn"]

Sash == Mon("sash", 3, 50, "focus_sash", <<Slot("tackle", 2, 2)>>)

Slow == Mon("slow", 3, 40, "none", <<Slot("counter", 2, 2), Slot("tackle", 1, 1)>>)

\* A combatant under the endure volatile status.
Tough == [Mon("tough", 3, 20, "none", <<Slot("tackle", 2, 2)>>) EXCEPT
            !.has_status_manager = TRUE, !.volatile_statuses = {"endure"}]

\* A poisoned combatant whose first end-of-turn damage takes its last HP.
Frail == [Mon("frail", 1, 20, "none", <<Slot("tackle", 1, 1)>>) EXCEPT
            !.has_status_manager = TRUE, !.major_status = "psn"]

\* start_battle inputs: <<trainer_party, opponent_party, battle_type, battle_format>>.
StartInputs ==
    {<<tp, <<Rat>>, "WILD", "SINGLES">> : tp \in {<< >>, <<Pika>>, <<Pika, Bulba>>}}
    \cup {<<<<Pika, Bulba>>, op, "TRAINER", "SINGLES">> : op \in {<< >>, <<Rat, Onix>>}}
    \cup {<<<<Bulba, Pika>>, <<Rat>>, "PVP", "SINGLES">>,
          <<<<Pika>>, <<Rat, Onix>>, "PVP", "SINGLES">>,
          <<<<Pika, Bulba>>, <<Rat>>, "TRAINER", "DOUBLES">>}

\* Battles in which a focus-survival item holder takes hits, battles whose
\* trainer combatant has end-of-turn effects, a wild battle against a
\* combatant with two moves, one of negative priority, battles in which a
\* combatant under endure takes hits, and a doubles battle against an AI whose
\* second active combatant is lost to end-of-turn damage.
ItemStartInputs ==
    {<<<<Sash, Pika>>, <<Rat>>, "TRAINER", "SINGLES">>,
     <<<<Pika>>, <<Sash>>, "WILD", "SINGLES">>,
     <<<<Onix>>, <<Rat>>, "WILD", "SINGLES">>,
     <<<<Onix>>, <<Rat, Sash>>, "TRAINER", "SINGLES">>,
     <<<<Pika>>, <<Slow>>, "WILD", "SINGLES">>,
     <<<<Pika>>, <<Tough>>, "WILD", "SINGLES">>,
     <<<<Tough, Pika>>, <<Rat>>, "TRAINER", "SINGLES">>,
     <<<<Pika>>, <<Rat, Frail, Sash>>, "TRAINER", "DOUBLES">>,
     <<<<Pika>>, <<Sash>>, "PVP", "SINGLES">>}

RegistryStartInputs == {<<<<Pika>>, <<Rat>>, "PVP", "SINGLES">>}

\* The move ids a caller submits for a side: those of its first active
\* combatant and, for a trainer facing an AI, a banned one and one the moves
\* database does not know.
MoveInputs(battle, side) ==
    LET act == get_active_pokemon(battle[side])
    IN  (IF Len(act) = 0 THEN {} ELSE {act[1].moves[i].move_id : i \in DOMAIN act[1].moves})
        \cup (IF side = "trainer" /\ battle.opponent.is_ai THEN {"fissure", "bogus"} ELSE {})

ActionInputs(battle, battler_id) ==
    LET side == SideOf(battle, battler_id) IN
    {BattleAction("move", battler_id, m, NoIndex) : m \in MoveInputs(battle, side)}
    \cup {BattleAction("switch", battler_id, "none", i) : i \in 0..(Len(battle[side].party) - 1)}
    \cup (IF battler_id = battle.trainer.battler_id /\ battle.opponent.is_ai
          THEN {BattleAction("item", battler_id, "none", NoIndex),
                BattleAction("flee", battler_id, "none", NoIndex)}
          ELSE {})

\* The sides callers act for: the human ones.
HumanBattlers(battle) ==
    {battle[side].battler_id : side \in {sd \in Sides : ~battle[sd].is_ai}}

----------------------------------------------------------------------------
(* Results of the calls                                                    *)

NoResult ==
    [op |-> "none", battle_id |-> 0, battler_id |-> NoBattler, error |-> "none",
     success |-> FALSE, waiting_for |-> << >>, ready_to_resolve |-> FALSE,
     turn_number |-> 0, messages |-> << >>, switch_messages |-> << >>,
     order |-> << >>, is_over |-> FALSE, winner |-> "none", found |-> FALSE,
     action |-> BattleAction("none", NoBattler, "none", NoIndex)]

Call(op, battle_id, battler_id) ==
    [NoResult EXCEPT !.op = op, !.battle_id = battle_id, !.battler_id = battler_id]

Error(op, battle_id, battler_id, error) ==
    [Call(op, battle_id, battler_id) EXCEPT !.error = error]

----------------------------------------------------------------------------
(* Battle registry                                                         *)

Battler(battler_id, party, active_positions, is_ai, can_switch, can_use_items, can_flee) ==
    [battler_id |-> battler_id, party |-> party, active_positions |-> active_positions,
     is_ai |-> is_ai, can_switch |-> can_switch, can_use_items |-> can_use_items,
     can_flee |-> can_flee]

\* The dataclass defaults of BattleState.
BattleState(battle_id, battle_type, battle_format, trainer, opponent) ==
    [battle_id |-> battle_id, battle_type |-> battle_type, battle_format |-> battle_format,
     trainer |-> trainer, opponent |-> opponent,
     turn_number |-> 1, phase |-> "START", forced_switch_battler_id |-> NoBattler,
     is_over |-> FALSE, winner |-> "none", fled |-> FALSE,
     weather |-> "none", weather_turns |-> 0,
     trainer_hazards |-> NoHazards, opponent_hazards |-> NoHazards,
     pending_actions |-> << >>, pending_ai_switch_index |-> NoIndex,
     wild_dazed |-> FALSE]

\* list(range(min(len(party), active_slot_count)))
InitialActive(party, battle_format) ==
    LET active_slot_count == IF battle_format = "DOUBLES" THEN 2 ELSE 1
        n == Min(Len(party), active_slot_count)
    IN  [k \in 1..n |-> k - 1]

NewBattle(battle_id, trainer_party, opponent_party, battle_type, battle_format, opponent_id, opponent_is_ai) ==
    BattleState(battle_id, battle_type, battle_format,
        Battler(TrainerId, trainer_party, InitialActive(trainer_party, battle_format),
                FALSE, TRUE, TRUE, battle_type = "WILD"),
        Battler(opponent_id, opponent_party, InitialActive(opponent_party, battle_format),
                opponent_is_ai, battle_type # "WILD", battle_type = "TRAINER", FALSE))

\* uuid4 never repeats: the new id is one no battle was created under.  One
\* session is followed through its life; the other id stays unknown.
StartOn(battle_id, trainer_party, opponent_party, battle_type, battle_format) ==
    /\ IF trainer_party = << >> \/ opponent_party = << >>
       THEN /\ last' = Error("start_battle", battle_id, TrainerId, "ValueError")
            /\ UNCHANGED <<active_battles, created>>
       ELSE LET opponent_id == IF battle_type = "PVP" THEN RivalId
                               ELSE IF battle_type = "WILD" THEN WildId ELSE NpcId
                battle == NewBattle(battle_id, trainer_party, opponent_party, battle_type,
                                    battle_format, opponent_id, battle_type # "PVP")
            IN  /\ active_battles' = [b \in DOMAIN active_battles \cup {battle_id} |->
                                        IF b = battle_id THEN battle ELSE active_battles[b]]
                /\ created' = created \cup {battle_id}
                /\ last' = [Call("start_battle", battle_id, TrainerId) EXCEPT !.success = TRUE]
    /\ UNCHANGED enhanced

\* start_battle with the id uuid4 draws bounded to the first id, drawn once.
start_battle(battle_id, trainer_party, opponent_party, battle_type, battle_format) ==
    /\ battle_id = 1
    /\ created = {}
    /\ StartOn(battle_id, trainer_party, opponent_party, battle_type, battle_format)

get_battle(battle_id) ==
    /\ last' = [Call("get_battle", battle_id, NoBattler) EXCEPT
                   !.found = battle_id \in DOMAIN active_battles]
    /\ UNCHANGED <<active_battles, created, enhanced>>

\* An end_battle that drops every session.
end_battle_All(battle_id) ==
    /\ active_battles' = << >>
    /\ last' = Call("end_battle", battle_id, NoBattler)
    /\ UNCHANGED <<created, enhanced>>

end_battle(battle_id) ==
    /\ active_battles' = [b \in DOMAIN active_battles \ {battle_id} |-> active_battles[b]]
    /\ last' = Call("end_battle", battle_id, NoBattler)
    /\ UNCHANGED <<created, enhanced>>

\* register_action without the check that keeps a battler who is not the
\* designated one out while a forced switch is pending.
RegisterError_NoWaiting(battle, battler_id, action) ==
    IF battle.phase = "FORCED_SWITCH" /\ battle.forced_switch_battler_id = battler_id
       /\ action.action_type # "switch"
    THEN "You must switch to another Pokemon!"
    ELSE IF battle.is_over THEN "Battle is already over"
    ELSE IF battler_id \notin {battle.trainer.battler_id, battle.opponent.battler_id}
    THEN "Invalid battler ID"
    ELSE "none"

\* register_action without the is_over check.
RegisterError_NoOver(battle, battler_id, action) ==
    IF battle.phase = "FORCED_SWITCH" /\ battle.forced_switch_battler_id = battler_id
       /\ action.action_type # "switch"
    THEN "You must switch to another Pokemon!"
    ELSE IF battle.phase = "FORCED_SWITCH" /\ battle.forced_switch_battler_id # battler_id
    THEN "Waiting for opponent to switch..."
    ELSE IF battler_id \notin {battle.trainer.battler_id, battle.opponent.battler_id}
    THEN "Invalid battler ID"
    ELSE "none"

\* The error register_action returns on a live battle, "none" when the
\* action is accepted; the checks in the order the code makes them.
RegisterError(battle, battler_id, action) ==
    IF battle.phase = "FORCED_SWITCH" /\ battle.forced_switch_battler_id = battler_id
       /\ action.action_type # "switch"
    THEN "You must switch to another Pokemon!"
    ELSE IF battle.phase = "FORCED_SWITCH" /\ battle.forced_switch_battler_id # battler_id
    THEN "Waiting for opponent to switch..."
    ELSE IF battle.is_over THEN "Battle is already over"
    ELSE IF battler_id \notin {battle.trainer.battler_id, battle.opponent.battler_id}
    THEN "Invalid battler ID"
    ELSE "none"

\* register_action that requires an action of both sides, AI or not.
RegisterOn_AllSides(battle, battler_id, action) ==
    LET error == RegisterError(battle, battler_id, action)
        b1 == IF battle.phase = "FORCED_SWITCH"
                 /\ battle.forced_switch_battler_id = battler_id
                 /\ action.action_type = "switch"
              THEN [battle EXCEPT !.phase = "WAITING_ACTIONS",
                                  !.forced_switch_battler_id = NoBattler]
              ELSE battle
        b2 == [b1 EXCEPT !.pending_actions = DictSet(@, battler_id, action)]
        required == <<battle.trainer.battler_id, battle.opponent.battler_id>>
        waiting == SelectSeq(required, LAMBDA rid : ~HasKey(b2.pending_actions, rid))
        call == [Call("register_action", battle.battle_id, battler_id) EXCEPT !.action = action]
    IN
    IF error \in {"You must switch to another Pokemon!", "Waiting for opponent to switch..."}
    THEN [battle |-> battle, result |-> [call EXCEPT !.error = error]]
    ELSE IF error # "none"
    THEN [battle |-> b1, result |-> [call EXCEPT !.error = error]]
    ELSE [battle |-> b2,
          result |-> [call EXCEPT !.success = TRUE, !.waiting_for = waiting,
                                  !.ready_to_resolve = (waiting = << >>)]]

\* [battle, result] of register_action on a live battle.
RegisterOn(battle, battler_id, action) ==
    LET error == RegisterError(battle, battler_id, action)
        \* the forced-switch block clears the state before the later checks
        b1 == IF battle.phase = "FORCED_SWITCH"
                 /\ battle.forced_switch_battler_id = battler_id
                 /\ action.action_type = "switch"
              THEN [battle EXCEPT !.phase = "WAITING_ACTIONS",
                                  !.forced_switch_battler_id = NoBattler]
              ELSE battle
        b2 == [b1 EXCEPT !.pending_actions = DictSet(@, battler_id, action)]
        required == (IF ~battle.trainer.is_ai THEN <<battle.trainer.battler_id>> ELSE << >>)
                    \o (IF ~battle.opponent.is_ai THEN <<battle.opponent.battler_id>> ELSE << >>)
        waiting == SelectSeq(required, LAMBDA rid : ~HasKey(b2.pending_actions, rid))
        call == [Call("register_action", battle.battle_id, battler_id) EXCEPT !.action = action]
    IN
    IF error \in {"You must switch to another Pokemon!", "Waiting for opponent to switch..."}
    THEN [battle |-> battle, result |-> [call EXCEPT !.error = error]]
    ELSE IF error # "none"
    THEN [battle |-> b1, result |-> [call EXCEPT !.error = error]]
    ELSE [battle |-> b2,
          result |-> [call EXCEPT !.success = TRUE, !.waiting_for = waiting,
                                  !.ready_to_resolve = (waiting = << >>)]]

\* register_action that reads the session without testing that it exists.
register_action_NoLookupCheck(battle_id, battler_id, action) ==
    /\ IF battle_id \notin DOMAIN active_battles
       THEN /\ last' = [Error("register_action", battle_id, battler_id, "AttributeError")
                           EXCEPT !.action = action]
            /\ UNCHANGED active_battles
       ELSE \E r \in {RegisterOn(active_battles[battle_id], battler_id, action)} :
                /\ active_battles' = [active_battles EXCEPT ![battle_id] = r.battle]
                /\ last' = r.result
    /\ UNCHANGED <<created, enhanced>>

register_action(battle_id, battler_id, action) ==
    /\ IF battle_id \notin DOMAIN active_battles
       THEN /\ last' = [Error("register_action", battle_id, battler_id, "Battle not found")
                           EXCEPT !.action = action]
            /\ UNCHANGED active_battles
       ELSE \E r \in {RegisterOn(active_battles[battle_id], battler_id, action)} :
                /\ active_battles' = [active_battles EXCEPT ![battle_id] = r.battle]
                /\ last' = r.result
    /\ UNCHANGED <<created, enhanced>>

----------------------------------------------------------------------------
(* Turn resolver                                                           *)

\* What the random source and the optional collaborators decide for one
\* action: status_manager.can_move, the calculator's damage, the flee roll.
Rolls ==
    {[can_move |-> FALSE, damage |-> 0, escape |-> FALSE],
     [can_move |-> TRUE, damage |-> 0, escape |-> TRUE],
     [can_move |-> TRUE, damage |-> 1, escape |-> FALSE],
     [can_move |-> TRUE, damage |-> MaxDamage, escape |-> TRUE]}

\* The moves generate_ai_action may return for the side.
AIChoices(battle, side) ==
    LET act == get_active_pokemon(battle[side])
        usable == {act[1].moves[i].move_id : i \in {j \in DOMAIN act[1].moves : act[1].moves[j].pp > 0}}
    IN  IF usable = {} THEN {"struggle"} ELSE usable

NeedsAIAction(battle, side) ==
    battle[side].is_ai /\ ~HasKey(battle.pending_actions, battle[side].battler_id)

AIPicks(battle, side) ==
    IF NeedsAIAction(battle, side) THEN AIChoices(battle, side) ELSE {"none"}

\* An AI step that synthesizes an action even when one is stored.
generate_ai_action_Replace(battle, side, pick) ==
    IF battle[side].is_ai
    THEN LET move_id == IF pick = "none"
                        THEN CHOOSE m \in AIChoices(battle, side) : TRUE
                        ELSE pick
         IN  [battle EXCEPT !.pending_actions =
                DictSet(@, battle[side].battler_id,
                        BattleAction("move", battle[side].battler_id, move_id, NoIndex))]
    ELSE battle

generate_ai_action(battle, side, pick) ==
    IF NeedsAIAction(battle, side)
    THEN [battle EXCEPT !.pending_actions =
            DictSet(@, battle[side].battler_id,
                    BattleAction("move", battle[side].battler_id, pick, NoIndex))]
    ELSE battle

\* A sort key that gives a flee the speed of the side's active combatant.
get_action_priority_FleeSpeed(battle, action) ==
    IF action.action_type = "switch" THEN <<SwitchClass, FixedSpeed>>
    ELSE IF action.action_type = "item" THEN <<ItemClass, FixedSpeed>>
    ELSE IF action.action_type = "move"
    THEN <<MovesDB[action.move_id].priority,
           _get_effective_speed(
               get_active_pokemon(battle[SideOf(battle, action.battler_id)])[1])>>
    ELSE <<0, _get_effective_speed(
                  get_active_pokemon(battle[SideOf(battle, action.battler_id)])[1])>>

get_action_priority(battle, action) ==
    IF action.action_type = "switch" THEN <<SwitchClass, FixedSpeed>>
    ELSE IF action.action_type = "item" THEN <<ItemClass, FixedSpeed>>
    ELSE IF action.action_type = "move"
    THEN <<MovesDB[action.move_id].priority,
           _get_effective_speed(
               get_active_pokemon(battle[SideOf(battle, action.battler_id)])[1])>>
    ELSE <<0, 0>>

KeyGreater(k1, k2) == k1[1] > k2[1] \/ (k1[1] = k2[1] /\ k1[2] > k2[2])

\* The key function fails on a move the database does not know
\* (move_data is None) before any element is moved.
SortRaises(actions) ==
    \E i \in DOMAIN actions :
        actions[i].action_type = "move" /\ ~KnownMove(actions[i].move_id)

RECURSIVE SortFrom(_, _, _, _)
\* list.sort(key, reverse=True): descending and stable.
SortFrom(battle, actions, i, sorted) ==
    IF i > Len(actions) THEN sorted
    ELSE LET a == actions[i]
             n == Cardinality({k \in DOMAIN sorted :
                     ~KeyGreater(get_action_priority(battle, a),
                                 get_action_priority(battle, sorted[k]))})
         IN  Let(SubSeq(sorted, 1, n) \o <<a>> \o SubSeq(sorted, n + 1, Len(sorted)),
                 LAMBDA placed : SortFrom(battle, actions, i + 1, placed))

_sort_actions(battle, actions) == SortFrom(battle, actions, 1, << >>)

\* A terminal check that never declares a draw.
_check_battle_end_NoDraw(battle) ==
    IF ~has_usable_pokemon(battle.opponent)
    THEN [battle EXCEPT !.is_over = TRUE, !.winner = "trainer"]
    ELSE IF ~has_usable_pokemon(battle.trainer)
    THEN [battle EXCEPT !.is_over = TRUE, !.winner = "opponent"]
    ELSE battle

_check_battle_end(battle) ==
    LET trainer_has_pokemon == has_usable_pokemon(battle.trainer)
        opponent_has_pokemon == has_usable_pokemon(battle.opponent)
    IN  IF ~trainer_has_pokemon /\ ~opponent_has_pokemon
        THEN [battle EXCEPT !.is_over = TRUE, !.winner = "draw"]
        ELSE IF ~trainer_has_pokemon
        THEN [battle EXCEPT !.is_over = TRUE, !.winner = "opponent"]
        ELSE IF ~opponent_has_pokemon
        THEN [battle EXCEPT !.is_over = TRUE, !.winner = "trainer"]
        ELSE battle

\* A PP deduction without the floor at 0.
DeductPP_NoFloor(moves, move_id) ==
    LET hits == {i \in DOMAIN moves : moves[i].move_id = move_id}
    IN  IF hits = {} THEN moves
        ELSE LET first == CHOOSE i \in hits : \A j \in hits : i <= j
             IN  [moves EXCEPT ![first].pp = @ - 1]

\* The first slot holding move_id loses one PP, never below 0.
DeductPP(moves, move_id) ==
    LET hits == {i \in DOMAIN moves : moves[i].move_id = move_id}
    IN  IF hits = {} THEN moves
        ELSE LET first == CHOOSE i \in hits : \A j \in hits : i <= j
             IN  [moves EXCEPT ![first].pp = Max(0, @ - 1)]

\* calculator.calculate_damage_with_effects: the damage it returns, and
\* the hazard a hazard-setting move lays on the defender's side.
CalcDamage(move_data, roll) ==
    IF move_data.category = "status" THEN 0 ELSE roll.damage

CalcEffects(battle, def_side, move_data) ==
    IF move_data.id = "stealth_rock"
    THEN IF def_side = "opponent"
         THEN [battle EXCEPT !.opponent_hazards["stealth_rock"] = 1]
         ELSE [battle EXCEPT !.trainer_hazards["stealth_rock"] = 1]
    ELSE battle

\* A faint branch that only narrates the faint.
HandleFaint_NoDaze(battle, def_side, def_idx) ==
    [battle |-> battle,
     messages |-> <<Msg("fainted", battle[def_side].party[def_idx + 1].species, "none")>>]

\* The faint / daze branch for the defender in slot def_idx of def_side.
HandleFaint(battle, def_side, def_idx) ==
    LET defender == battle[def_side].party[def_idx + 1]
        defender_battler == battle[def_side]
        others == {i \in DOMAIN defender_battler.party :
                     i # def_idx + 1 /\ defender_battler.party[i].current_hp > 0}
        replacement == IF others = {} THEN NoIndex
                       ELSE (CHOOSE i \in others : \A j \in others : i <= j) - 1
    IN
    IF battle.battle_type = "WILD" /\ def_side = "opponent"
    THEN [battle |-> [battle EXCEPT ![def_side].party[def_idx + 1].current_hp = 1,
                                    !.wild_dazed = TRUE, !.phase = "DAZED"],
          messages |-> <<Msg("dazed", defender.species, "none")>>]
    ELSE IF def_side = "trainer" /\ ~defender_battler.is_ai
    THEN IF has_usable_pokemon(defender_battler)
         THEN IF others # {}
              THEN [battle |-> [battle EXCEPT !.phase = "FORCED_SWITCH",
                                   !.forced_switch_battler_id = defender_battler.battler_id],
                    messages |-> <<Msg("fainted", defender.species, "none"),
                                   Msg("must_switch", defender.species, "none")>>]
              ELSE [battle |-> _check_battle_end(battle),
                    messages |-> <<Msg("fainted", defender.species, "none")>>]
         ELSE [battle |-> battle,
               messages |-> <<Msg("fainted", defender.species, "none")>>]
    ELSE IF defender_battler.is_ai /\ battle.battle_type \in {"TRAINER", "PVP"}
    THEN IF has_usable_pokemon(defender_battler)
         THEN IF replacement # NoIndex
              THEN [battle |-> [battle EXCEPT !.phase = "FORCED_SWITCH",
                                   !.forced_switch_battler_id = defender_battler.battler_id,
                                   !.pending_ai_switch_index = replacement],
                    messages |-> <<Msg("fainted", defender.species, "none")>>]
              ELSE [battle |-> battle,
                    messages |-> <<Msg("fainted", defender.species, "none")>>]
         ELSE [battle |-> _check_battle_end(battle),
               messages |-> <<Msg("fainted", defender.species, "none")>>]
    ELSE [battle |-> battle, messages |-> <<Msg("fainted", defender.species, "none")>>]

\* Damage applied without the clamp at 0.
TakeDamage_Unclamped(pokemon, damage) ==
    [pokemon EXCEPT !.current_hp = @ - damage]

\* defender.current_hp = max(0, defender.current_hp - damage)
TakeDamage(pokemon, damage) ==
    [pokemon EXCEPT !.current_hp = Max(0, @ - damage)]

\* A move execution that ignores the endure volatile status.
_execute_move_NoEndure(battle, action, roll) ==
    LET atk_side == SideOf(battle, action.battler_id)
        def_side == OtherSide(atk_side)
        atk_idx == ActiveIndices(battle[atk_side])[1]
        def_active == ActiveIndices(battle[def_side])
        def_idx == def_active[action.target_position + 1]
        attacker == battle[atk_side].party[atk_idx + 1]
        defender == battle[def_side].party[def_idx + 1]
        move_data == MovesDB[action.move_id]
        restriction == check_move_restrictions(attacker, move_data)
        base == IF enhanced THEN CalcDamage(move_data, roll) ELSE BasicDamage
        stop(kind) == [battle |-> battle, raised |-> FALSE,
                       messages |-> <<Msg(kind, attacker.species, action.move_id)>>]
    IN
    IF action.target_position >= Len(def_active)
    THEN [battle |-> battle, messages |-> << >>, raised |-> TRUE]
    ELSE IF enhanced /\ attacker.has_status_manager /\ ~roll.can_move THEN stop("prevented")
    ELSE IF ~KnownMove(action.move_id) THEN stop("unknown_move")
    ELSE IF restriction # "none" THEN stop(restriction)
    ELSE IF ~IsMoveAllowed(action.move_id) THEN stop("banned")
    ELSE
    Let([attacker EXCEPT !.moves = DeductPP(@, action.move_id)], LAMBDA atk1 :
    Let(modify_damage(atk1, defender, move_data, base), LAMBDA md :
    LET endured == FALSE
        damage == IF endured THEN md.defender.current_hp - 1 ELSE md.damage
        def1 == IF damage > 0 THEN TakeDamage(md.defender, damage) ELSE md.defender
    IN
    Let(apply_after_damage(atk1, move_data, damage), LAMBDA post :
    Let([battle EXCEPT ![atk_side].party[atk_idx + 1] = post.attacker,
                       ![def_side].party[def_idx + 1] = def1], LAMBDA b1 :
    Let(IF enhanced THEN CalcEffects(b1, def_side, move_data) ELSE b1, LAMBDA b2 :
    Let(IF b2[def_side].party[def_idx + 1].current_hp <= 0
        THEN HandleFaint(b2, def_side, def_idx)
        ELSE [battle |-> b2, messages |-> << >>], LAMBDA faint :
    [battle |-> faint.battle, raised |-> FALSE,
     messages |->
        <<Msg("used", attacker.species, action.move_id)>>
        \o (IF md.hung_on THEN <<Msg("hung_on", defender.species, "none")>> ELSE << >>)
        \o (IF endured THEN <<Msg("endured", defender.species, "none")>> ELSE << >>)
        \o (IF post.recoil > 0 THEN <<Msg("recoil", attacker.species, "none")>> ELSE << >>)
        \o faint.messages]))))))

\* [battle, messages, raised] of one move action.
_execute_move(battle, action, roll) ==
    LET atk_side == SideOf(battle, action.battler_id)
        def_side == OtherSide(atk_side)
        atk_idx == ActiveIndices(battle[atk_side])[1]
        def_active == ActiveIndices(battle[def_side])
        def_idx == def_active[action.target_position + 1]
        attacker == battle[atk_side].party[atk_idx + 1]
        defender == battle[def_side].party[def_idx + 1]
        move_data == MovesDB[action.move_id]
        restriction == check_move_restrictions(attacker, move_data)
        base == IF enhanced THEN CalcDamage(move_data, roll) ELSE BasicDamage
        stop(kind) == [battle |-> battle, raised |-> FALSE,
                       messages |-> <<Msg(kind, attacker.species, action.move_id)>>]
    IN
    IF action.target_position >= Len(def_active)
    THEN [battle |-> battle, messages |-> << >>, raised |-> TRUE]
    ELSE IF enhanced /\ attacker.has_status_manager /\ ~roll.can_move THEN stop("prevented")
    ELSE IF ~KnownMove(action.move_id) THEN stop("unknown_move")
    ELSE IF restriction # "none" THEN stop(restriction)
    ELSE IF ~IsMoveAllowed(action.move_id) THEN stop("banned")
    ELSE
    Let([attacker EXCEPT !.moves = DeductPP(@, action.move_id)], LAMBDA atk1 :
    Let(modify_damage(atk1, defender, move_data, base), LAMBDA md :
    LET endured == md.damage >= md.defender.current_hp
                   /\ md.defender.has_status_manager
                   /\ "endure" \in md.defender.volatile_statuses
                   /\ md.defender.current_hp > 1
        damage == IF endured THEN md.defender.current_hp - 1 ELSE md.damage
        def1 == IF damage > 0 THEN TakeDamage(md.defender, damage) ELSE md.defender
    IN
    Let(apply_after_damage(atk1, move_data, damage), LAMBDA post :
    Let([battle EXCEPT ![atk_side].party[atk_idx + 1] = post.attacker,
                       ![def_side].party[def_idx + 1] = def1], LAMBDA b1 :
    Let(IF enhanced THEN CalcEffects(b1, def_side, move_data) ELSE b1, LAMBDA b2 :
    Let(IF b2[def_side].party[def_idx + 1].current_hp <= 0
        THEN HandleFaint(b2, def_side, def_idx)
        ELSE [battle |-> b2, messages |-> << >>], LAMBDA faint :
    [battle |-> faint.battle, raised |-> FALSE,
     messages |->
        <<Msg("used", attacker.species, action.move_id)>>
        \o (IF md.hung_on THEN <<Msg("hung_on", defender.species, "none")>> ELSE << >>)
        \o (IF endured THEN <<Msg("endured", defender.species, "none")>> ELSE << >>)
        \o (IF post.recoil > 0 THEN <<Msg("recoil", attacker.species, "none")>> ELSE << >>)
        \o faint.messages]))))))

\* A switch that applies the entry hazards twice.
_execute_switch_Twice(battle, action, forced) ==
    LET side == SideOf(battle, action.battler_id)
        battler == battle[side]
        active == ActiveIndices(battler)
        n == Len(battler.party)
        pos == action.switch_to_position
        \* a negative Python index counts from the end of the party
        new_idx == IF pos < 0 THEN n + pos ELSE pos
        old_idx == active[1]
        b1 == [battle EXCEPT ![side].active_positions[1] = pos]
        b2 == [b1 EXCEPT ![side].party[old_idx + 1] = clear_choice_lock(@)]
        old_pokemon == battler.party[old_idx + 1]
        new_pokemon == battler.party[new_idx + 1]
        lead == IF forced THEN <<Msg("sent_out", new_pokemon.species, "none")>>
                ELSE <<Msg("withdrew", old_pokemon.species, "none"),
                       Msg("go", new_pokemon.species, "none")>>
    IN  IF Len(active) = 0 \/ pos >= n \/ pos < 0 - n \/ Len(battler.active_positions) = 0
        THEN [battle |-> battle, messages |-> << >>, raised |-> TRUE]
        ELSE Let(_apply_entry_hazards(b2, side, new_idx), LAMBDA h1 :
             Let(_apply_entry_hazards(h1.battle, side, new_idx), LAMBDA hz :
                 [battle |-> hz.battle, messages |-> lead \o h1.messages \o hz.messages,
                  raised |-> FALSE]))

\* [battle, messages, raised] of a switch, forced or not.
_execute_switch(battle, action, forced) ==
    LET side == SideOf(battle, action.battler_id)
        battler == battle[side]
        active == ActiveIndices(battler)
        n == Len(battler.party)
        pos == action.switch_to_position
        \* a negative Python index counts from the end of the party
        new_idx == IF pos < 0 THEN n + pos ELSE pos
        old_idx == active[1]
        b1 == [battle EXCEPT ![side].active_positions[1] = pos]
        b2 == [b1 EXCEPT ![side].party[old_idx + 1] = clear_choice_lock(@)]
        old_pokemon == battler.party[old_idx + 1]
        new_pokemon == battler.party[new_idx + 1]
        lead == IF forced THEN <<Msg("sent_out", new_pokemon.species, "none")>>
                ELSE <<Msg("withdrew", old_pokemon.species, "none"),
                       Msg("go", new_pokemon.species, "none")>>
    IN  IF Len(active) = 0 \/ pos >= n \/ pos < 0 - n \/ Len(battler.active_positions) = 0
        THEN [battle |-> battle, messages |-> << >>, raised |-> TRUE]
        ELSE Let(_apply_entry_hazards(b2, side, new_idx), LAMBDA hz :
                 [battle |-> hz.battle, messages |-> lead \o hz.messages, raised |-> FALSE])

_execute_item(battle, action) ==
    [battle |-> battle, raised |-> FALSE,
     messages |-> <<Msg("used_item", "none", action.item_id)>>]

\* A flee attempt that does not look at the battle type.
_execute_flee_AnyMode(battle, action, roll) ==
    IF roll.escape
    THEN [battle |-> [battle EXCEPT !.is_over = TRUE, !.fled = TRUE, !.winner = "none"],
          raised |-> FALSE, messages |-> <<Msg("got_away", "none", "none")>>]
    ELSE [battle |-> battle, raised |-> FALSE,
          messages |-> <<Msg("cant_escape", "none", "none")>>]

_execute_flee(battle, action, roll) ==
    IF battle.battle_type # "WILD"
    THEN [battle |-> battle, raised |-> FALSE,
          messages |-> <<Msg("cant_flee", "none", "none")>>]
    ELSE IF roll.escape
    THEN [battle |-> [battle EXCEPT !.is_over = TRUE, !.fled = TRUE, !.winner = "none"],
          raised |-> FALSE, messages |-> <<Msg("got_away", "none", "none")>>]
    ELSE [battle |-> battle, raised |-> FALSE,
          messages |-> <<Msg("cant_escape", "none", "none")>>]

_execute_action(battle, action, roll) ==
    IF action.action_type = "move" THEN _execute_move(battle, action, roll)
    ELSE IF action.action_type = "switch" THEN _execute_switch(battle, action, FALSE)
    ELSE IF action.action_type = "item" THEN _execute_item(battle, action)
    ELSE IF action.action_type = "flee" THEN _execute_flee(battle, action, roll)
    ELSE [battle |-> battle, messages |-> << >>, raised |-> FALSE]

\* A forced switch that leaves forced_switch_battler_id set.
ForceSwitchOn_KeepId(battle, battler_id, switch_to_position) ==
    LET side == SideOf(battle, battler_id)
        battler == battle[side]
        err(e) == [battle |-> battle, error |-> e, messages |-> << >>, raised |-> FALSE]
        action == BattleAction("switch", battler_id, "none", switch_to_position)
    IN
    IF battle.phase # "FORCED_SWITCH" \/ battle.forced_switch_battler_id # battler_id
    THEN err("No forced switch is pending")
    ELSE IF switch_to_position < 0 \/ switch_to_position >= Len(battler.party)
    THEN err("Invalid party slot")
    ELSE IF battler.party[switch_to_position + 1].current_hp <= 0
    THEN err("That Pokemon can't battle")
    ELSE Let(_execute_switch(battle, action, TRUE), LAMBDA sw :
        [battle |-> [sw.battle EXCEPT
                        !.phase = "WAITING_ACTIONS",
                        !.pending_ai_switch_index = NoIndex,
                        !.pending_actions = DictPop(@, battler_id)],
         error |-> "none", messages |-> sw.messages, raised |-> sw.raised])

\* A forced switch that accepts a fainted target.
ForceSwitchOn_NoFaintCheck(battle, battler_id, switch_to_position) ==
    LET side == SideOf(battle, battler_id)
        battler == battle[side]
        err(e) == [battle |-> battle, error |-> e, messages |-> << >>, raised |-> FALSE]
        action == BattleAction("switch", battler_id, "none", switch_to_position)
    IN
    IF battle.phase # "FORCED_SWITCH" \/ battle.forced_switch_battler_id # battler_id
    THEN err("No forced switch is pending")
    ELSE IF switch_to_position < 0 \/ switch_to_position >= Len(battler.party)
    THEN err("Invalid party slot")
    ELSE Let(_execute_switch(battle, action, TRUE), LAMBDA sw :
        [battle |-> [sw.battle EXCEPT
                        !.phase = "WAITING_ACTIONS",
                        !.forced_switch_battler_id = NoBattler,
                        !.pending_ai_switch_index = NoIndex,
                        !.pending_actions = DictPop(@, battler_id)],
         error |-> "none", messages |-> sw.messages, raised |-> sw.raised])

\* [battle, result] of force_switch on a live battle; result.raised tells
\* an exception from the switch.
ForceSwitchOn(battle, battler_id, switch_to_position) ==
    LET side == SideOf(battle, battler_id)
        battler == battle[side]
        err(e) == [battle |-> battle, error |-> e, messages |-> << >>, raised |-> FALSE]
        action == BattleAction("switch", battler_id, "none", switch_to_position)
    IN
    IF battle.phase # "FORCED_SWITCH" \/ battle.forced_switch_battler_id # battler_id
    THEN err("No forced switch is pending")
    ELSE IF switch_to_position < 0 \/ switch_to_position >= Len(battler.party)
    THEN err("Invalid party slot")
    ELSE IF battler.party[switch_to_position + 1].current_hp <= 0
    THEN err("That Pokemon can't battle")
    ELSE Let(_execute_switch(battle, action, TRUE), LAMBDA sw :
        IF sw.raised
        THEN [battle |-> battle, error |-> "none", messages |-> << >>, raised |-> TRUE]
        ELSE [battle |-> [sw.battle EXCEPT
                             !.phase = "WAITING_ACTIONS",
                             !.forced_switch_battler_id = NoBattler,
                             !.pending_ai_switch_index = NoIndex,
                             !.pending_actions = DictPop(@, battler_id)],
              error |-> "none", messages |-> sw.messages, raised |-> FALSE])

force_switch(battle_id, battler_id, switch_to_position) ==
    /\ IF battle_id \notin DOMAIN active_battles
       THEN /\ last' = Error("force_switch", battle_id, battler_id, "Battle not found")
            /\ UNCHANGED active_battles
       ELSE \E r \in {ForceSwitchOn(active_battles[battle_id], battler_id, switch_to_position)} :
                /\ active_battles' = [active_battles EXCEPT ![battle_id] = r.battle]
                /\ last' = [Call("force_switch", battle_id, battler_id) EXCEPT
                               !.error = IF r.raised THEN "IndexError" ELSE r.error,
                               !.success = (r.error = "none" /\ ~r.raised),
                               !.switch_messages = r.messages]
    /\ UNCHANGED <<created, enhanced>>

\* An auto-switch that never switches.
auto_switch_if_forced_ai_Never(battle) ==
    [battle |-> battle, messages |-> << >>, raised |-> FALSE]

\* [battle, messages, raised]: the queued AI replacement, performed after
\* end-of-turn.
auto_switch_if_forced_ai(battle) ==
    LET none == [battle |-> battle, messages |-> << >>, raised |-> FALSE]
        side == SideOf(battle, battle.forced_switch_battler_id)
        battler == battle[side]
        current_idx == IF Len(battler.active_positions) > 0
                       THEN battler.active_positions[1] ELSE NoIndex
        healthy == {i \in 0..(Len(battler.party) - 1) :
                      i # current_idx /\ battler.party[i + 1].current_hp > 0}
        idx == IF battle.pending_ai_switch_index # NoIndex
               THEN battle.pending_ai_switch_index
               ELSE IF healthy = {} THEN NoIndex
               ELSE CHOOSE i \in healthy : \A j \in healthy : i <= j
    IN  IF battle.phase # "FORCED_SWITCH" \/ battle.forced_switch_battler_id = NoBattler
        THEN none
        ELSE IF ~battler.is_ai THEN none
        ELSE IF idx = NoIndex THEN none
        ELSE Let(ForceSwitchOn(battle, battler.battler_id, idx), LAMBDA r :
                 [battle |-> r.battle, messages |-> r.messages, raised |-> r.raised])

\* status_manager.apply_end_of_turn_effects: poison damage of 1/8 max HP.
StatusEndOfTurn(pokemon) ==
    IF pokemon.has_status_manager /\ pokemon.major_status \in {"psn", "tox"}
       /\ pokemon.current_hp > 0
    THEN [pokemon EXCEPT !.current_hp = Max(0, @ - Max(1, pokemon.max_hp \div 8))]
    ELSE pokemon

RECURSIVE EndOfTurnFrom(_, _, _, _)
\* The status and held-item pass over the active combatants in targets,
\* a sequence of <<side, party index>>.
EndOfTurnFrom(battle, targets, i, messages) ==
    IF i > Len(targets) THEN [battle |-> battle, messages |-> messages]
    ELSE LET side == targets[i][1]
             idx == targets[i][2]
             p0 == battle[side].party[idx + 1]
             p1 == StatusEndOfTurn(p0)
             h == process_end_of_turn(p1)
             m == (IF p1 # p0 THEN <<Msg("status_damage", p0.species, "none")>> ELSE << >>)
                  \o (IF h.healed THEN <<Msg("healed", p0.species, "none")>> ELSE << >>)
         IN  Let([battle |-> [battle EXCEPT ![side].party[idx + 1] = h.pokemon],
                  messages |-> messages \o m],
                 LAMBDA done : EndOfTurnFrom(done.battle, targets, i + 1, done.messages))

_process_end_of_turn(battle) ==
    LET ta == ActiveIndices(battle.trainer)
        oa == ActiveIndices(battle.opponent)
        targets == [k \in 1..Len(ta) |-> <<"trainer", ta[k]>>]
                   \o [k \in 1..Len(oa) |-> <<"opponent", oa[k]>>]
    IN  IF ~enhanced THEN [battle |-> battle, messages |-> << >>]
        ELSE Let(EndOfTurnFrom(battle, targets, 1, << >>), LAMBDA r :
             LET turns == r.battle.weather_turns - 1
             IN  [battle |-> IF r.battle.weather = "none" THEN r.battle
                             ELSE IF turns <= 0
                             THEN [r.battle EXCEPT !.weather_turns = turns, !.weather = "none"]
                             ELSE [r.battle EXCEPT !.weather_turns = turns],
                  messages |-> r.messages])

RECURSIVE ExecuteActions_ThroughDaze(_, _, _, _)
\* An action loop that a dazed wild combatant does not stop.
ExecuteActions_ThroughDaze(w, actions, rolls, i) ==
    IF i > Len(actions) \/ w.raised THEN w
    ELSE LET battle == w.battle
             action == actions[i]
             battler == battle[SideOf(battle, action.battler_id)]
             active_pokemon == get_active_pokemon(battler)
         IN  IF battle.is_over THEN w
             ELSE IF Len(active_pokemon) = 0
                     \/ \A k \in DOMAIN active_pokemon : active_pokemon[k].current_hp <= 0
             THEN ExecuteActions_ThroughDaze(w, actions, rolls, i + 1)
             ELSE IF battle.phase = "FORCED_SWITCH"
                     /\ battle.forced_switch_battler_id = battler.battler_id
                     /\ action.action_type # "switch"
             THEN ExecuteActions_ThroughDaze(w, actions, rolls, i + 1)
             ELSE Let(_execute_action(battle, action, rolls[i]), LAMBDA r :
                  Let([battle |-> r.battle,
                       turn_log |-> IF action.action_type = "switch" THEN w.turn_log
                                    ELSE w.turn_log \o r.messages,
                       switch_messages |-> IF action.action_type = "switch"
                                           THEN w.switch_messages \o r.messages
                                           ELSE w.switch_messages,
                       raised |-> r.raised],
                      LAMBDA w1 : ExecuteActions_ThroughDaze(w1, actions, rolls, i + 1)))

RECURSIVE ExecuteActions_Prepend(_, _, _, _)
\* An action loop that puts each action's narration before the earlier ones.
ExecuteActions_Prepend(w, actions, rolls, i) ==
    IF i > Len(actions) \/ w.raised THEN w
    ELSE LET battle == w.battle
             action == actions[i]
             battler == battle[SideOf(battle, action.battler_id)]
             active_pokemon == get_active_pokemon(battler)
         IN  IF battle.is_over \/ battle.wild_dazed THEN w
             ELSE IF Len(active_pokemon) = 0
                     \/ \A k \in DOMAIN active_pokemon : active_pokemon[k].current_hp <= 0
             THEN ExecuteActions_Prepend(w, actions, rolls, i + 1)
             ELSE IF battle.phase = "FORCED_SWITCH"
                     /\ battle.forced_switch_battler_id = battler.battler_id
                     /\ action.action_type # "switch"
             THEN ExecuteActions_Prepend(w, actions, rolls, i + 1)
             ELSE Let(_execute_action(battle, action, rolls[i]), LAMBDA r :
                  Let([battle |-> r.battle,
                       turn_log |-> IF action.action_type = "switch" THEN w.turn_log
                                    ELSE r.messages \o w.turn_log,
                       switch_messages |-> IF action.action_type = "switch"
                                           THEN w.switch_messages \o r.messages
                                           ELSE w.switch_messages,
                       raised |-> r.raised],
                      LAMBDA w1 : ExecuteActions_Prepend(w1, actions, rolls, i + 1)))

RECURSIVE ExecuteActions(_, _, _, _)
\* The action loop of process_turn from position i of the sorted actions;
\* w is [battle, turn_log, switch_messages, raised].
ExecuteActions(w, actions, rolls, i) ==
    IF i > Len(actions) \/ w.raised THEN w
    ELSE LET battle == w.battle
             action == actions[i]
             battler == battle[SideOf(battle, action.battler_id)]
             active_pokemon == get_active_pokemon(battler)
         IN  IF battle.is_over \/ battle.wild_dazed THEN w
             ELSE IF Len(active_pokemon) = 0
                     \/ \A k \in DOMAIN active_pokemon : active_pokemon[k].current_hp <= 0
             THEN ExecuteActions(w, actions, rolls, i + 1)
             ELSE IF battle.phase = "FORCED_SWITCH"
                     /\ battle.forced_switch_battler_id = battler.battler_id
                     /\ action.action_type # "switch"
             THEN ExecuteActions(w, actions, rolls, i + 1)
             ELSE Let(_execute_action(battle, action, rolls[i]), LAMBDA r :
                  Let([battle |-> r.battle,
                       turn_log |-> IF action.action_type = "switch" THEN w.turn_log
                                    ELSE w.turn_log \o r.messages,
                       switch_messages |-> IF action.action_type = "switch"
                                           THEN w.switch_messages \o r.messages
                                           ELSE w.switch_messages,
                       raised |-> r.raised],
                      LAMBDA w1 : ExecuteActions(w1, actions, rolls, i + 1)))

\* [battle, result] of process_turn on a live battle.
ProcessTurnOn(battle, pick_trainer, pick_opponent, rolls) ==
    LET call == Call("process_turn", battle.battle_id, NoBattler) IN
    Let(generate_ai_action(battle, "trainer", pick_trainer), LAMBDA b0 :
    Let(generate_ai_action(b0, "opponent", pick_opponent), LAMBDA b1 :
    Let(DictValues(b1.pending_actions), LAMBDA pending :
    IF SortRaises(pending)
    THEN [battle |-> b1, result |-> [call EXCEPT !.error = "AttributeError"]]
    ELSE
    Let(_sort_actions(b1, pending), LAMBDA actions :
    Let(ExecuteActions([battle |-> b1, turn_log |-> << >>, switch_messages |-> << >>,
                        raised |-> FALSE], actions, rolls, 1), LAMBDA w :
    IF w.raised
    THEN [battle |-> w.battle,
          result |-> [call EXCEPT !.error = "IndexError", !.order = actions]]
    ELSE
    Let(IF w.battle.wild_dazed THEN [battle |-> w.battle, messages |-> << >>]
        ELSE _process_end_of_turn(w.battle), LAMBDA eot :
    Let(IF w.battle.wild_dazed
        THEN [battle |-> eot.battle, messages |-> << >>, raised |-> FALSE]
        ELSE auto_switch_if_forced_ai(eot.battle), LAMBDA auto :
    IF auto.raised
    THEN [battle |-> auto.battle,
          result |-> [call EXCEPT !.error = "IndexError", !.order = actions]]
    ELSE
    Let([_check_battle_end(auto.battle) EXCEPT !.pending_actions = << >>,
                                               !.turn_number = @ + 1], LAMBDA b6 :
    [battle |-> b6,
     result |-> [call EXCEPT !.success = TRUE,
                             !.turn_number = b6.turn_number - 1,
                             !.messages = w.turn_log \o eot.messages,
                             !.switch_messages = w.switch_messages \o auto.messages,
                             !.order = actions,
                             !.is_over = b6.is_over,
                             !.winner = b6.winner]]))))))))

process_turn(battle_id, pick_trainer, pick_opponent, rolls) ==
    /\ IF battle_id \notin DOMAIN active_battles
       THEN /\ last' = Error("process_turn", battle_id, NoBattler, "Battle not found")
            /\ UNCHANGED active_battles
       ELSE /\ active_battles[battle_id].turn_number < MaxTurn
            /\ \E r \in {ProcessTurnOn(active_battles[battle_id], pick_trainer,
                                       pick_opponent, rolls)} :
                   /\ active_battles' = [active_battles EXCEPT ![battle_id] = r.battle]
                   /\ last' = r.result
    /\ UNCHANGED <<created, enhanced>>

----------------------------------------------------------------------------
(* The engine as a state machine                                           *)

Init ==
    /\ active_battles = << >>
    /\ created = {}
    /\ enhanced \in BOOLEAN
    /\ last = NoResult

Live(battle_id) == battle_id \in DOMAIN active_battles

StartBattle ==
    \E in \in StartInputs : start_battle(1, in[1], in[2], in[3], in[4])

EndBattle == \E battle_id \in BattleIds : Live(battle_id) /\ end_battle(battle_id)

RegisterAction ==
    \E battle_id \in BattleIds :
        /\ Live(battle_id)
        /\ \E battler_id \in HumanBattlers(active_battles[battle_id]) :
             \E action \in ActionInputs(active_battles[battle_id], battler_id) :
                register_action(battle_id, battler_id, action)

ProcessTurn ==
    \E battle_id \in BattleIds :
        /\ Live(battle_id)
        /\ \E pt \in AIPicks(active_battles[battle_id], "trainer"),
              po \in AIPicks(active_battles[battle_id], "opponent"),
              r1 \in Rolls, r2 \in Rolls :
                process_turn(battle_id, pt, po, <<r1, r2>>)

ForceSwitch ==
    \E battle_id \in BattleIds :
        /\ Live(battle_id)
        /\ \E battler_id \in HumanBattlers(active_battles[battle_id]) :
             \E slot \in -1..Len(active_battles[battle_id][
                                   SideOf(active_battles[battle_id], battler_id)].party) :
                force_switch(battle_id, battler_id, slot)

Next ==
    \/ StartBattle
    \/ EndBattle
    \/ RegisterAction
    \/ ProcessTurn
    \/ ForceSwitch

Spec == Init /\ [][Next]_vars

----------------------------------------------------------------------------
(* The registry under calls with unknown ids and foreign battlers          *)

StartRegistryBattle ==
    \E in \in RegistryStartInputs : start_battle(1, in[1], in[2], in[3], in[4])

GetBattle == \E battle_id \in BattleIds : get_battle(battle_id)

EndUnknown == \E battle_id \in BattleIds : ~Live(battle_id) /\ end_battle(battle_id)

RegisterAny ==
    \E battle_id \in BattleIds :
        /\ Live(battle_id)
        /\ \E battler_id \in HumanBattlers(active_battles[battle_id]) \cup {StrangerId} :
             \E action \in ActionInputs(active_battles[battle_id], battler_id) :
                register_action(battle_id, battler_id, action)

RegisterUnknown ==
    \E battle_id \in BattleIds :
        /\ ~Live(battle_id)
        /\ register_action(battle_id, TrainerId,
                           BattleAction("move", TrainerId, "tackle", NoIndex))

ProcessUnknown ==
    \E battle_id \in BattleIds :
        /\ ~Live(battle_id)
        /\ process_turn(battle_id, "none", "none", << >>)

ForceUnknown ==
    \E battle_id \in BattleIds :
        /\ ~Live(battle_id)
        /\ force_switch(battle_id, TrainerId, 0)

RegistryNext ==
    \/ StartRegistryBattle
    \/ GetBattle
    \/ EndBattle
    \/ EndUnknown
    \/ RegisterAny
    \/ RegisterUnknown
    \/ ProcessTurn
    \/ ProcessUnknown
    \/ ForceSwitch
    \/ ForceUnknown

RegistrySpec == Init /\ [][RegistryNext]_vars

----------------------------------------------------------------------------
(* Battles exercising held items and end-of-turn effects                   *)

StartItemBattle ==
    \E in \in ItemStartInputs : start_battle(1, in[1], in[2], in[3], in[4])

ItemNext ==
    \/ StartItemBattle
    \/ EndBattle
    \/ RegisterAction
    \/ ProcessTurn
    \/ ForceSwitch

ItemSpec == Init /\ [][ItemNext]_vars

----------------------------------------------------------------------------
(* Two sessions side by side                                               *)

PairStartInputs == {<<<<Bulba, Pika>>, <<Rat>>, "TRAINER", "SINGLES">>}

\* The rolls drawn for the turns of two sessions side by side.
PairRolls == {r \in Rolls : r.damage = MaxDamage}

\* The actions the trainers of two sessions side by side submit.
PairActionInputs(battle, battler_id) ==
    {a \in ActionInputs(battle, battler_id) :
        \/ a.action_type = "move" /\ a.move_id \in {"tackle", "stealth_rock"}
        \/ a.action_type = "switch" /\ a.switch_to_position = 1}

\* start_battle with a fresh id: uuid4 never returns an id it returned before.
StartPairBattle ==
    \E battle_id \in BattleIds, in \in PairStartInputs :
        /\ battle_id \notin created
        /\ StartOn(battle_id, in[1], in[2], in[3], in[4])

PairProcessTurn ==
    \E battle_id \in BattleIds :
        /\ Live(battle_id)
        /\ \E po \in AIPicks(active_battles[battle_id], "opponent"), r \in PairRolls :
                process_turn(battle_id, "none", po, <<r, r>>)

PairRegisterAction ==
    \E battle_id \in BattleIds :
        /\ Live(battle_id)
        /\ \E battler_id \in HumanBattlers(active_battles[battle_id]) :
             \E action \in PairActionInputs(active_battles[battle_id], battler_id) :
                register_action(battle_id, battler_id, action)

PairForceSwitch ==
    \E battle_id \in BattleIds :
        /\ Live(battle_id)
        /\ \E battler_id \in HumanBattlers(active_battles[battle_id]) :
                force_switch(battle_id, battler_id, 1)

PairNext ==
    \/ StartPairBattle
    \/ EndBattle
    \/ PairRegisterAction
    \/ PairProcessTurn
    \/ PairForceSwitch

PairSpec == Init /\ [][PairNext]_vars

----------------------------------------------------------------------------
(* Entries onto a side that holds hazards                                  *)

\* max_hp of the arriving combatants.
HazardHPs == {1, 12, 100}

\* Type lists of the arriving combatants; their rock products are
\* 1, 4, 1/4, 1/2, 2, 0, 1, 2, 2.
HazardTypes ==
    {<<"normal">>, <<"flying", "fire">>, <<"steel", "ground">>, <<"steel">>, <<"fire">>,
     <<"shadow">>, <<"poison">>, <<"poison", "flying">>, <<"flying">>}

\* <<ability, has status_manager, speed stage>> of the arriving combatants.
HazardTraits == {<<"none", FALSE, 0>>, <<"none", TRUE, -5>>, <<"levitate", TRUE, 0>>}

\* The hazard maps the move effects have left on the trainer's side.
HazardMaps ==
    {[NoHazards EXCEPT !["stealth_rock"] = 1],
     [NoHazards EXCEPT !["spikes"] = 1],
     [NoHazards EXCEPT !["spikes"] = 2],
     [NoHazards EXCEPT !["spikes"] = 3],
     [NoHazards EXCEPT !["stealth_rock"] = 1, !["spikes"] = 2],
     [NoHazards EXCEPT !["toxic_spikes"] = 1],
     [NoHazards EXCEPT !["toxic_spikes"] = 2],
     [NoHazards EXCEPT !["sticky_web"] = 1],
     [NoHazards EXCEPT !["toxic_spikes"] = 1, !["sticky_web"] = 1],
     [k \in HazardKinds |-> 1]}

Lead == Mon("lead", 3, 50, "none", <<Slot("tackle", 2, 2)>>)

Entrant(max_hp, types, traits) ==
    [Mon("entrant", max_hp, 40, "none", <<Slot("tackle", 2, 2)>>) EXCEPT
        !.types = types, !.ability = traits[1], !.has_status_manager = traits[2],
        !.speed_stage = traits[3]]

\* A started PVP battle whose trainer has a reserve to bring in and hazards
\* on the trainer's side; the opponent's side holds the full map.
HazardBattles ==
    {[NewBattle(1, <<Lead, Entrant(hp, ty, tr)>>, <<Rat>>, "PVP", "SINGLES", RivalId, FALSE)
         EXCEPT !.trainer_hazards = hz, !.opponent_hazards = [k \in HazardKinds |-> 1]] :
       hp \in HazardHPs, ty \in HazardTypes, tr \in HazardTraits, hz \in HazardMaps}

\* The session as the hazard-laying moves have left it, in the build without
\* the enhanced systems (no end-of-turn pass follows an entry).
StartHazardBattle ==
    /\ created = {}
    /\ ~enhanced
    /\ \E battle \in HazardBattles : active_battles' = [b \in {1} |-> battle]
    /\ created' = {1}
    /\ last' = [Call("start_battle", 1, TrainerId) EXCEPT !.success = TRUE]
    /\ UNCHANGED enhanced

\* The trainer asks for a switch to one of its two slots.
HazardRegisterSwitch ==
    \E slot \in 0..1 :
        register_action(1, TrainerId, BattleAction("switch", TrainerId, "none", slot))

HazardProcessTurn ==
    \E r \in PairRolls : process_turn(1, "none", "none", <<r, r>>)

HazardNext == StartHazardBattle \/ HazardRegisterSwitch \/ HazardProcessTurn

HazardSpec == Init /\ [][HazardNext]_vars

----------------------------------------------------------------------------
(* Properties                                                              *)

Kinds(messages) == {messages[i].kind : i \in DOMAIN messages}

\* The battle a call was made on, before and after a step.
StepOn(op) ==
    /\ last'.op = op
    /\ last'.battle_id \in DOMAIN active_battles
    /\ last'.battle_id \in DOMAIN active_battles'

Before == active_battles[last'.battle_id]

After == active_battles'[last'.battle_id]

TurnResolved == last.op = "process_turn" /\ last.success /\ Live(last.battle_id)

\* C1: after every process_turn call on an existing battle exactly one of
\* is_over, phase = FORCED_SWITCH, phase = DAZED, phase = WAITING_ACTIONS
\* holds.
C1_ExactlyOneOutcome ==
    TurnResolved =>
        LET b == active_battles[last.battle_id]
            holds == [over |-> b.is_over,
                      forced |-> b.phase = "FORCED_SWITCH",
                      dazed |-> b.phase = "DAZED",
                      waiting |-> b.phase = "WAITING_ACTIONS"]
        IN  Cardinality({k \in DOMAIN holds : holds[k]}) = 1

\* C2: start_battle with two non-empty parties registers a session with
\* phase WAITING_ACTIONS, turn_number 1, is_over false, no pending action,
\* active positions [0] in singles and the first min(2, party size)
\* indices in doubles.
C2_StartBattleState ==
    (last.op = "start_battle" /\ last.success) =>
        /\ Live(last.battle_id)
        /\ LET b == active_battles[last.battle_id]
               expected(party) ==
                   IF b.battle_format = "DOUBLES"
                   THEN IF Len(party) >= 2 THEN <<0, 1>> ELSE <<0>>
                   ELSE <<0>>
           IN  /\ b.phase = "WAITING_ACTIONS"
               /\ b.turn_number = 1
               /\ ~b.is_over
               /\ b.pending_actions = << >>
               /\ b.trainer.active_positions = expected(b.trainer.party)
               /\ b.opponent.active_positions = expected(b.opponent.party)

\* C3: every process_turn on an existing battle raises turn_number by
\* exactly 1 and reports the number of the turn it resolved; register_action
\* and force_switch leave turn_number unchanged.
C3_TurnNumberStep ==
    /\ StepOn("process_turn") =>
          /\ After.turn_number = Before.turn_number + 1
          /\ last'.turn_number = Before.turn_number
    /\ (StepOn("register_action") \/ StepOn("force_switch")) =>
          After.turn_number = Before.turn_number

C3_TurnNumber == [][C3_TurnNumberStep]_vars

\* C4: every combatant of every party has 0 <= current_hp <= max_hp in
\* every reachable state.
C4_HPWithinBounds ==
    \A b \in DOMAIN active_battles : \A side \in Sides :
        \A i \in DOMAIN active_battles[b][side].party :
            LET p == active_battles[b][side].party[i]
            IN  0 <= p.current_hp /\ p.current_hp <= p.max_hp

\* A turn in which a move knocked the wild combatant down (clamped to 1 HP)
\* and the attacker took held-item recoil.
C4_Witness ==
    /\ TurnResolved
    /\ {"recoil", "dazed"} \subseteq Kinds(last.messages)
    /\ active_battles[last.battle_id].opponent.party[1].current_hp = 1

\* C5: the PP of every move slot stays within [0, max_pp] and never
\* increases; a step lowers it by exactly 1 (not below 0) for the slot of a
\* move the turn executed, and leaves it unchanged for every move that was
\* refused or skipped and in every other operation.
Executed(species, move_id) ==
    /\ last'.op = "process_turn"
    /\ \E i \in DOMAIN last'.messages : last'.messages[i] = Msg("used", species, move_id)

C5_PPStep ==
    \A b \in DOMAIN active_battles \cap DOMAIN active_battles' : \A side \in Sides :
        \A i \in DOMAIN active_battles[b][side].party :
            LET old == active_battles[b][side].party[i]
                new == active_battles'[b][side].party[i]
            IN  \A k \in DOMAIN old.moves :
                  LET first == \A j \in 1..(k - 1) : old.moves[j].move_id # old.moves[k].move_id
                  IN  /\ new.moves[k].max_pp = old.moves[k].max_pp
                      /\ 0 <= old.moves[k].pp /\ old.moves[k].pp <= old.moves[k].max_pp
                      /\ 0 <= new.moves[k].pp /\ new.moves[k].pp <= old.moves[k].pp
                      /\ new.moves[k].pp =
                            IF Executed(old.species, old.moves[k].move_id) /\ first
                            THEN Max(0, old.moves[k].pp - 1)
                            ELSE old.moves[k].pp

C5_PPMonotone == [][C5_PPStep]_vars

\* A turn in which the trainer's banned move was refused with its PP intact
\* while the opposing tackle executed and used up its last PP.
C5_Witness ==
    /\ TurnResolved
    /\ \E i \in DOMAIN last.messages : last.messages[i] = Msg("banned", "pika", "fissure")
    /\ \E i \in DOMAIN last.messages : last.messages[i] = Msg("used", "rat", "tackle")
    /\ LET b == active_battles[last.battle_id]
       IN  /\ b.opponent.party[1].moves[1].pp = 0
           /\ b.trainer.party[1].moves[1].pp = 2
           /\ b.trainer.party[1].moves[2].pp = 1

\* The position of a battler's entry among the actions process_turn sorts:
\* its place in pending_actions, or after them for a generated AI action.
SortPosition(battle, battler_id) ==
    IF HasKey(battle.pending_actions, battler_id)
    THEN CHOOSE i \in DOMAIN battle.pending_actions : battle.pending_actions[i].key = battler_id
    ELSE Len(battle.pending_actions) + (IF battler_id = battle.trainer.battler_id THEN 1 ELSE 2)

ActiveSpeed(battle, battler_id) ==
    _get_effective_speed(get_active_pokemon(battle[SideOf(battle, battler_id)])[1])

ClassOf(action) ==
    IF action.action_type = "switch" THEN 100
    ELSE IF action.action_type = "item" THEN 90
    ELSE IF action.action_type = "move" THEN MovesDB[action.move_id].priority
    ELSE 0

\* C6 as stated: a precedes b iff (class, effective speed of the acting
\* side) is lexicographically greater, or the keys tie and a was registered
\* first.  The registration order is known when one of the two actions was
\* generated for an AI at resolve time, or when the call before the turn was
\* the accepted registration of one of them.
StatedFirst(battle, a, b) ==
    IF ~HasKey(battle.pending_actions, b.battler_id) THEN TRUE
    ELSE IF ~HasKey(battle.pending_actions, a.battler_id) THEN FALSE
    ELSE IF last.op = "register_action" /\ last.success
    THEN last.battler_id = b.battler_id
    ELSE SortPosition(battle, a.battler_id) < SortPosition(battle, b.battler_id)

StatedPrecedes(battle, a, b) ==
    LET ka == <<ClassOf(a), ActiveSpeed(battle, a.battler_id)>>
        kb == <<ClassOf(b), ActiveSpeed(battle, b.battler_id)>>
    IN  KeyGreater(ka, kb) \/ (ka = kb /\ StatedFirst(battle, a, b))

C6_StatedOrderStep ==
    (StepOn("process_turn") /\ last'.success) =>
        \A i, j \in DOMAIN last'.order :
            i < j => StatedPrecedes(Before, last'.order[i], last'.order[j])

C6_StatedOrder == [][C6_StatedOrderStep]_vars

\* C6 as amended: the speed of the key is 999 for a switch and an item, 0
\* for a flee and the effective speed of the side's first active combatant
\* for a move; ties keep the order of pending_actions.
AmendedKey(battle, action) ==
    <<ClassOf(action),
      IF action.action_type \in {"switch", "item"} THEN 999
      ELSE IF action.action_type = "move" THEN ActiveSpeed(battle, action.battler_id)
      ELSE 0>>

AmendedPrecedes(battle, a, b) ==
    \/ KeyGreater(AmendedKey(battle, a), AmendedKey(battle, b))
    \/ /\ AmendedKey(battle, a) = AmendedKey(battle, b)
       /\ SortPosition(battle, a.battler_id) < SortPosition(battle, b.battler_id)

C6_AmendedOrderStep ==
    (StepOn("process_turn") /\ last'.success) =>
        /\ \A i, j \in DOMAIN last'.order :
              i < j => AmendedPrecedes(Before, last'.order[i], last'.order[j])
        /\ \A e \in Range(Before.pending_actions) : e.action \in Range(last'.order)
        /\ Len(last'.order) = Cardinality({last'.order[i].battler_id : i \in DOMAIN last'.order})

C6_AmendedOrder == [][C6_AmendedOrderStep]_vars

\* A turn in which the generated opposing move was sorted before the
\* trainer's flee although the flee was registered first and the two sides
\* are equally fast.
C6_Witness ==
    /\ TurnResolved
    /\ Len(last.order) = 2
    /\ last.order[1].action_type = "move" /\ last.order[1].battler_id # TrainerId
    /\ last.order[2].action_type = "flee" /\ last.order[2].battler_id = TrainerId
    /\ MovesDB[last.order[1].move_id].priority = 0

\* C7: two accepted registrations by one battler leave exactly one pending
\* action for it, the second, and the battle otherwise as if only the
\* second had been submitted: the first has no effect on HP, PP or phase.
C7_SecondSubmissionOnly ==
    \A b \in DOMAIN active_battles :
        LET battle == active_battles[b] IN
        \A battler_id \in HumanBattlers(battle) :
            \A a1, a2 \in ActionInputs(battle, battler_id) :
                LET r1 == RegisterOn(battle, battler_id, a1)
                    r12 == RegisterOn(r1.battle, battler_id, a2)
                    r2 == RegisterOn(battle, battler_id, a2)
                IN  (r1.result.success /\ r12.result.success) =>
                      /\ Cardinality({i \in DOMAIN r12.battle.pending_actions :
                             r12.battle.pending_actions[i].key = battler_id}) = 1
                      /\ DictGet(r12.battle.pending_actions, battler_id) = a2
                      /\ r12.battle.trainer.party = r2.battle.trainer.party
                      /\ r12.battle.opponent.party = r2.battle.opponent.party
                      /\ r12.battle.phase = r2.battle.phase

\* C8: while phase = FORCED_SWITCH a registration is accepted only from the
\* designated battler and only as a switch; any other submission returns an
\* error and leaves the battle (pending_actions, phase,
\* forced_switch_battler_id) unchanged.
C8_ForcedSwitchGateStep ==
    (StepOn("register_action") /\ Before.phase = "FORCED_SWITCH") =>
        LET designated == last'.battler_id = Before.forced_switch_battler_id
            switch == last'.action.action_type = "switch"
        IN  /\ last'.success => (designated /\ switch)
            /\ ~(designated /\ switch) =>
                  /\ last'.error # "none"
                  /\ ~last'.success
                  /\ After = Before

C8_ForcedSwitchGate == [][C8_ForcedSwitchGateStep]_vars

\* The other battler was refused while the trainer's forced switch is
\* pending.
C8_Witness ==
    /\ last.op = "register_action"
    /\ last.error = "Waiting for opponent to switch..."
    /\ Live(last.battle_id)
    /\ active_battles[last.battle_id].phase = "FORCED_SWITCH"
    /\ active_battles[last.battle_id].forced_switch_battler_id = TrainerId
    /\ last.battler_id = RivalId
    /\ ~HasKey(active_battles[last.battle_id].pending_actions, RivalId)

\* C9: once is_over is true every register_action returns an error and
\* pending_actions is left as it was.
C9_NoActionAfterOverStep ==
    (StepOn("register_action") /\ Before.is_over) =>
        /\ last'.error # "none"
        /\ ~last'.success
        /\ After.pending_actions = Before.pending_actions

C9_NoActionAfterOver == [][C9_NoActionAfterOverStep]_vars

C9_Witness ==
    /\ last.op = "register_action"
    /\ last.error = "Battle is already over"
    /\ Live(last.battle_id)
    /\ active_battles[last.battle_id].is_over
    /\ active_battles[last.battle_id].pending_actions = << >>

\* C10: register_action, process_turn and force_switch on an id with no
\* live session return "Battle not found" and change no session; get_battle
\* finds nothing for such an id; register_action by a battler of neither
\* side returns an error and stores nothing.
C10_UnknownIdStep ==
    /\ (last'.op \in {"register_action", "process_turn", "force_switch"}
        /\ last'.battle_id \notin DOMAIN active_battles) =>
          /\ last'.error = "Battle not found"
          /\ ~last'.success
          /\ active_battles' = active_battles
    /\ last'.op = "get_battle" =>
          /\ last'.found = (last'.battle_id \in DOMAIN active_battles)
          /\ active_battles' = active_battles
    /\ (StepOn("register_action")
        /\ last'.battler_id \notin {Before.trainer.battler_id, Before.opponent.battler_id}) =>
          /\ last'.error # "none"
          /\ ~last'.success
          /\ After.pending_actions = Before.pending_actions

C10_UnknownId == [][C10_UnknownIdStep]_vars

\* A call on the id of a discarded session was answered "Battle not found"
\* while no session is live.
C10_Witness ==
    /\ last.op \in {"register_action", "process_turn", "force_switch"}
    /\ last.error = "Battle not found"
    /\ last.battle_id \in created
    /\ ~Live(last.battle_id)

\* A switch request of party `party` with active slots `active` that the
\* contract calls invalid: out of range, fainted, or already active.
InvalidTarget(battler, pos) ==
    \/ pos < 0 \/ pos >= Len(battler.party)
    \/ battler.party[pos + 1].current_hp <= 0
    \/ pos \in Range(battler.active_positions)

\* C11: a switch request (a switch action given to register_action and
\* resolved by process_turn, or a force_switch call) whose target slot is out
\* of range, fainted or already active is returned as an error and leaves
\* active_positions unchanged; none raises an exception or puts a fainted
\* combatant on the field.
C11_InvalidSwitchStep ==
    /\ \A b \in DOMAIN active_battles :
          \A battler_id \in HumanBattlers(active_battles[b]) :
             LET battle == active_battles[b]
                 battler == battle[SideOf(battle, battler_id)]
             IN  \A pos \in -1..Len(battler.party) :
                   InvalidTarget(battler, pos) =>
                      LET r == ForceSwitchOn(battle, battler_id, pos)
                      IN  r.error # "none" /\ ~r.raised /\ r.battle = battle
    /\ StepOn("process_turn") =>
          /\ last'.error # "IndexError"
          /\ \A e \in Range(Before.pending_actions) :
                LET side == SideOf(Before, e.key) IN
                (e.action.action_type = "switch"
                 /\ InvalidTarget(Before[side], e.action.switch_to_position)) =>
                    After[side].active_positions = Before[side].active_positions

C11_InvalidSwitch == [][C11_InvalidSwitchStep]_vars

\* C12: a move action whose move_id the moves database does not know never
\* makes process_turn fail: the turn resolves to completion (pending_actions
\* cleared, turn_number incremented) and no PP or HP changes because of it.
C12_UnknownMoveStep ==
    (StepOn("process_turn")
     /\ \E e \in Range(Before.pending_actions) :
           e.action.action_type = "move" /\ ~KnownMove(e.action.move_id)) =>
        /\ last'.success
        /\ last'.error = "none"
        /\ After.pending_actions = << >>
        /\ After.turn_number = Before.turn_number + 1

C12_UnknownMove == [][C12_UnknownMoveStep]_vars

\* The first active combatant of a side holds an unconsumed locks_move item
\* and is locked into a move.
Locked(pokemon) ==
    /\ _get_item(pokemon) # "none"
    /\ ItemsDB[_get_item(pokemon)].locks_move
    /\ pokemon.choice_locked_move # "none"

\* C13: once a combatant holding an unconsumed locks_move item has executed
\* move X it is locked into X: a later move action with another known move Y
\* is refused and changes nothing in the battle (no PP, no damage, no
\* recoil); the lock is cleared when the combatant leaves the first active
\* slot, so only a first active combatant is ever locked.
C13_ChoiceLockStep ==
    /\ \A b \in DOMAIN active_battles : \A side \in Sides :
          LET battle == active_battles[b]
              act == ActiveIndices(battle[side])
          IN  /\ \A i \in DOMAIN battle[side].party :
                    battle[side].party[i].choice_locked_move # "none" =>
                       (Len(act) > 0 /\ act[1] = i - 1)
              /\ (Len(act) > 0 /\ Len(ActiveIndices(battle[OtherSide(side)])) > 0
                  /\ Locked(battle[side].party[act[1] + 1])) =>
                    \A y \in DOMAIN MovesDB \ {battle[side].party[act[1] + 1].choice_locked_move} :
                       \A roll \in Rolls :
                          LET r == _execute_move(battle,
                                      BattleAction("move", battle[side].battler_id, y, NoIndex),
                                      roll)
                          IN  /\ r.battle = battle
                              /\ ~r.raised
                              /\ Kinds(r.messages) \subseteq {"locked", "prevented"}
    /\ StepOn("process_turn") /\ last'.success =>
          \A side \in Sides :
             LET act == ActiveIndices(Before[side])
                 new == ActiveIndices(After[side])
             IN  Len(act) > 0 =>
                   LET old == Before[side].party[act[1] + 1]
                       now == After[side].party[act[1] + 1]
                   IN  /\ (Locked(old) /\ HasKey(Before.pending_actions, Before[side].battler_id)
                           /\ DictGet(Before.pending_actions, Before[side].battler_id).action_type = "move"
                           /\ DictGet(Before.pending_actions, Before[side].battler_id).move_id
                                 # old.choice_locked_move) =>
                             /\ now.moves = old.moves
                             /\ now.choice_locked_move = old.choice_locked_move
                             /\ \A i \in DOMAIN last'.messages :
                                   last'.messages[i].who = old.species =>
                                      last'.messages[i].kind \notin {"used", "recoil"}
                       /\ \A x \in DOMAIN MovesDB :
                             (Executed(old.species, x) /\ _get_item(old) # "none"
                              /\ ItemsDB[_get_item(old)].locks_move /\ new = act) =>
                                now.choice_locked_move = x
                       /\ (new # act) => now.choice_locked_move = "none"
    /\ StepOn("force_switch") /\ last'.success =>
          \A side \in Sides :
             LET act == ActiveIndices(Before[side])
             IN  (Len(act) > 0 /\ ActiveIndices(After[side]) # act) =>
                    After[side].party[act[1] + 1].choice_locked_move = "none"

C13_ChoiceLock == [][C13_ChoiceLockStep]_vars

\* A turn in which a locked combatant's other move was refused: its choice
\* item holds it to tackle, and stealth_rock kept its PP.
C13_Witness ==
    /\ TurnResolved
    /\ \E i \in DOMAIN last.messages : last.messages[i] = Msg("locked", "bulba", "stealth_rock")
    /\ \E side \in Sides :
          LET battle == active_battles[last.battle_id]
              act == ActiveIndices(battle[side])
          IN  /\ Len(act) > 0
              /\ battle[side].party[act[1] + 1].species = "bulba"
              /\ battle[side].party[act[1] + 1].choice_locked_move = "tackle"
              /\ battle[side].party[act[1] + 1].moves[2].pp = 1

\* The combatants of every battle, as <<battle id, side, party position>>.
Combatants(battles) ==
    {c \in (DOMAIN battles) \X Sides \X (1..2) : c[3] \in DOMAIN battles[c[1]][c[2]].party}

\* The largest damage a hit delivers to the survival check.
MaxHit == BasicDamage + MaxDamage

\* The combatant holds an unconsumed one_time_use focus-survival item.
HoldsFocusItem(pokemon) ==
    /\ _get_item(pokemon) # "none"
    /\ ItemsDB[_get_item(pokemon)].requires_full_hp
    /\ ItemsDB[_get_item(pokemon)].one_time_use

\* C14: a one_time_use focus-survival item held at full HP (max_hp >= 2)
\* turns a lethal hit into one that leaves exactly 1 HP and is consumed by
\* it; the consumed set never shrinks; with the item consumed every lookup
\* answers as for no item, so a second lethal hit is not survived.
C14_FocusItemStep ==
    /\ \A c \in Combatants(active_battles) :
          LET p == active_battles[c[1]][c[2]].party[c[3]] IN
          /\ (HoldsFocusItem(p) /\ p.current_hp = p.max_hp /\ p.max_hp >= 2) =>
                \A d \in p.current_hp..MaxHit :
                   LET r == _try_focus_items(p, d) IN
                   /\ r.hung_on
                   /\ TakeDamage(r.defender, r.damage).current_hp = 1
                   /\ r.defender.consumed_items = p.consumed_items \cup {p.held_item}
                   /\ _get_item(r.defender) = "none"
          /\ (p.held_item \in p.consumed_items) =>
                /\ _get_item(p) = "none"
                /\ \A d \in 1..MaxHit :
                      _try_focus_items(p, d) = [damage |-> d, defender |-> p, hung_on |-> FALSE]
                /\ process_end_of_turn(p) = [pokemon |-> p, healed |-> FALSE]
                /\ get_speed_multiplier(p) = <<1, 1>>
                /\ \A m \in DOMAIN MovesDB :
                      /\ _power_multiplier(p, MovesDB[m]) = <<1, 1>>
                      /\ _defense_multiplier(p, MovesDB[m]) = <<1, 1>>
                      /\ check_move_restrictions(p, MovesDB[m]) = "none"
                      /\ apply_after_damage(p, MovesDB[m], 1) = [attacker |-> p, recoil |-> 0]
    /\ \A c \in Combatants(active_battles) \cap Combatants(active_battles') :
          LET old == active_battles[c[1]][c[2]].party[c[3]]
              new == active_battles'[c[1]][c[2]].party[c[3]]
              hung == {i \in DOMAIN last'.messages :
                         last'.messages[i] = Msg("hung_on", old.species, "none")}
          IN  /\ old.consumed_items \subseteq new.consumed_items
              /\ new.consumed_items # old.consumed_items =>
                    /\ last'.op = "process_turn" /\ hung # {}
                    /\ new.consumed_items = old.consumed_items \cup {old.held_item}
              /\ (last'.op = "process_turn" /\ last'.success /\ hung # {}) =>
                    /\ Cardinality(hung) = 1
                    /\ HoldsFocusItem(old) /\ old.current_hp = old.max_hp
                    /\ new.current_hp = 1
                    /\ old.held_item \in new.consumed_items
              /\ (last'.op = "process_turn" /\ last'.success
                  /\ old.held_item \in old.consumed_items) => hung = {}

C14_FocusItem == [][C14_FocusItemStep]_vars

\* A turn in which the holder, at full HP, survived a lethal hit at 1 HP and
\* its item was consumed.
C14_Witness ==
    /\ TurnResolved
    /\ \E i \in DOMAIN last.messages : last.messages[i] = Msg("hung_on", "sash", "none")
    /\ \E c \in Combatants(active_battles) :
          LET p == active_battles[c[1]][c[2]].party[c[3]] IN
          /\ c[1] = last.battle_id
          /\ p.species = "sash" /\ p.current_hp = 1
          /\ p.consumed_items = {"focus_sash"}

\* C15: in a WILD battle a trainer move never leaves the wild combatant at
\* 0 HP: the knockout is narrated as a daze with current_hp = 1, wild_dazed
\* and phase DAZED, without a faint message or a forced switch; the turn
\* that dazes executes nothing after that move and skips end-of-turn.
C15_WildDazeStep ==
    /\ \A b \in DOMAIN active_battles :
          LET battle == active_battles[b]
              ta == ActiveIndices(battle.trainer)
              oa == ActiveIndices(battle.opponent)
          IN  (battle.battle_type = "WILD" /\ Len(ta) > 0 /\ Len(oa) > 0) =>
                \A m \in DOMAIN MovesDB : \A roll \in Rolls :
                   LET r == _execute_move(battle,
                               BattleAction("move", battle.trainer.battler_id, m, NoIndex), roll)
                       wild == r.battle.opponent.party[oa[1] + 1]
                   IN  /\ ~r.raised
                       /\ "fainted" \notin Kinds(r.messages)
                       /\ r.battle.forced_switch_battler_id = battle.forced_switch_battler_id
                       /\ IF "dazed" \in Kinds(r.messages)
                          THEN /\ wild.current_hp = 1
                               /\ r.battle.wild_dazed /\ r.battle.phase = "DAZED"
                               /\ r.messages[Len(r.messages)] = Msg("dazed", wild.species, "none")
                          ELSE /\ r.battle.wild_dazed = battle.wild_dazed
                               /\ r.battle.phase = battle.phase
                               /\ "used" \in Kinds(r.messages) => wild.current_hp > 0
    /\ (StepOn("process_turn") /\ last'.success /\ Before.battle_type = "WILD"
        /\ "dazed" \in Kinds(last'.messages)) =>
          LET oa == ActiveIndices(After.opponent)
              wild == After.opponent.party[oa[1] + 1]
              n == Len(last'.messages)
          IN  /\ ~Before.wild_dazed
              /\ wild.current_hp = 1 /\ After.wild_dazed /\ After.phase = "DAZED"
              /\ After.forced_switch_battler_id # After.opponent.battler_id
              /\ After.pending_ai_switch_index = NoIndex
              /\ last'.messages[n] = Msg("dazed", wild.species, "none")
              /\ \A i \in 1..n : last'.messages[i].who = wild.species =>
                    last'.messages[i].kind # "fainted"
              /\ Kinds(last'.messages) \cap {"status_damage", "healed"} = {}
              /\ Kinds(last'.switch_messages) \cap {"sent_out"} = {}
              /\ \E k \in DOMAIN last'.order :
                    /\ last'.order[k].battler_id = Before.trainer.battler_id
                    /\ last'.order[k].action_type = "move"
                    /\ \A j \in (k + 1)..Len(last'.order) :
                          LET who == Before[SideOf(Before, last'.order[j].battler_id)]
                              mon == who.party[ActiveIndices(who)[1] + 1]
                          IN  /\ After[SideOf(Before, last'.order[j].battler_id)]
                                    .party[ActiveIndices(who)[1] + 1].moves = mon.moves
                              /\ \A i \in 1..n : last'.messages[i].who = mon.species =>
                                    last'.messages[i].kind = "dazed"

C15_WildDaze == [][C15_WildDazeStep]_vars

\* A turn in which the trainer's faster move dazed the wild combatant while
\* the wild side's own move was ordered after it and never ran.
C15_Witness ==
    /\ TurnResolved
    /\ Len(last.order) = 2
    /\ last.order[1].battler_id = TrainerId /\ last.order[1].action_type = "move"
    /\ last.order[2].battler_id = WildId /\ last.order[2].action_type = "move"
    /\ "dazed" \in Kinds(last.messages)
    /\ LET battle == active_battles[last.battle_id]
       IN  /\ battle.wild_dazed /\ battle.phase = "DAZED" /\ ~battle.is_over
           /\ battle.opponent.party[1].current_hp = 1

\* C16: the process_turn in which the trainer's move knocked out the wild
\* combatant ends with that combatant at 1 HP, wild_dazed = true,
\* phase = DAZED, is_over = false and no winner.
C16_DazePausesStep ==
    (StepOn("process_turn") /\ last'.success /\ Before.battle_type = "WILD"
     /\ "dazed" \in Kinds(last'.messages)) =>
        /\ After.opponent.party[ActiveIndices(After.opponent)[1] + 1].current_hp = 1
        /\ After.wild_dazed
        /\ After.phase = "DAZED"
        /\ ~After.is_over /\ ~last'.is_over
        /\ After.winner = "none" /\ last'.winner = "none"

C16_DazePauses == [][C16_DazePausesStep]_vars

\* C17: whenever a move makes a combatant of a human-controlled side faint
\* while that side has another usable combatant, the move leaves
\* phase = FORCED_SWITCH with forced_switch_battler_id that side's id.
C17_HumanFaintForcesSwitch ==
    \A b \in DOMAIN active_battles : \A def_side \in Sides :
       LET battle == active_battles[b]
           atk_side == OtherSide(def_side)
           da == ActiveIndices(battle[def_side])
       IN  (~battle[def_side].is_ai /\ Len(da) > 0
            /\ Len(ActiveIndices(battle[atk_side])) > 0) =>
              \A m \in DOMAIN MovesDB : \A roll \in Rolls :
                 LET r == _execute_move(battle,
                             BattleAction("move", battle[atk_side].battler_id, m, NoIndex), roll)
                     party == r.battle[def_side].party
                 IN  ("fainted" \in Kinds(r.messages)
                      /\ \E i \in DOMAIN party : i # da[1] + 1 /\ party[i].current_hp > 0) =>
                        /\ r.battle.phase = "FORCED_SWITCH"
                        /\ r.battle.forced_switch_battler_id = battle[def_side].battler_id

\* The first party slot (0-based) other than slot idx whose combatant has
\* HP left, NoIndex when there is none.
FirstReserve(battler, idx) ==
    LET living == {i \in 0..(Len(battler.party) - 1) :
                     i # idx /\ battler.party[i + 1].current_hp > 0}
    IN  IF living = {} THEN NoIndex ELSE CHOOSE i \in living : \A j \in living : i <= j

\* C18: in a TRAINER battle, a move that makes the AI side's active
\* combatant faint while a reserve lives leaves phase = FORCED_SWITCH with
\* pending_ai_switch_index the first living other slot; the process_turn
\* that resolved it returns with that replacement active, its narration in
\* switch_messages, no end-of-turn effect on it, phase = WAITING_ACTIONS,
\* both forced-switch fields cleared and turn_number incremented.
C18_AIAutoSwitchStep ==
    /\ \A b \in DOMAIN active_battles :
          LET battle == active_battles[b]
              oa == ActiveIndices(battle.opponent)
          IN  (battle.battle_type = "TRAINER" /\ battle.opponent.is_ai
               /\ Len(oa) > 0 /\ Len(ActiveIndices(battle.trainer)) > 0
               /\ FirstReserve(battle.opponent, oa[1]) # NoIndex) =>
                 \A m \in DOMAIN MovesDB : \A roll \in Rolls :
                    LET r == _execute_move(battle,
                                BattleAction("move", battle.trainer.battler_id, m, NoIndex), roll)
                    IN  "fainted" \in Kinds(r.messages) =>
                          /\ r.battle.phase = "FORCED_SWITCH"
                          /\ r.battle.forced_switch_battler_id = battle.opponent.battler_id
                          /\ r.battle.pending_ai_switch_index = FirstReserve(battle.opponent, oa[1])
    /\ (StepOn("process_turn") /\ last'.success /\ Before.battle_type = "TRAINER"
        /\ Before.opponent.is_ai /\ Len(ActiveIndices(Before.opponent)) > 0) =>
          LET old_idx == ActiveIndices(Before.opponent)[1]
              fainter == Before.opponent.party[old_idx + 1]
              idx == FirstReserve(Before.opponent, old_idx)
          IN  (Msg("fainted", fainter.species, "none") \in Range(last'.messages)
               /\ idx # NoIndex) =>
                 LET replacement == Before.opponent.party[idx + 1] IN
                 /\ After.opponent.active_positions[1] = idx
                 /\ After.phase = "WAITING_ACTIONS"
                 /\ After.forced_switch_battler_id = NoBattler
                 /\ After.pending_ai_switch_index = NoIndex
                 /\ After.turn_number = Before.turn_number + 1
                 /\ Msg("sent_out", replacement.species, "none") \in Range(last'.switch_messages)
                 /\ \A i \in DOMAIN last'.messages :
                       last'.messages[i].who # replacement.species
                 /\ After.opponent_hazards = NoHazards =>
                       After.opponent.party[idx + 1] = replacement

C19_TerminalCheckStep ==
    (StepOn("process_turn") /\ last'.success) =>
        LET t == has_usable_pokemon(After.trainer)
            o == has_usable_pokemon(After.opponent)
        IN  (~t \/ ~o) =>
              /\ After.is_over /\ last'.is_over
              /\ After.winner = (IF ~t /\ ~o THEN "draw"
                                 ELSE IF ~t THEN "opponent" ELSE "trainer")
              /\ last'.winner = After.winner

C19_TerminalCheck == [][C19_TerminalCheckStep]_vars

\* A turn in which the last combatant of one side was knocked out and the
\* attacker, the last of its side, went down to its own recoil: a draw.
C19_Witness ==
    /\ TurnResolved
    /\ {"fainted", "recoil"} \subseteq Kinds(last.messages)
    /\ last.is_over /\ last.winner = "draw"
    /\ LET battle == active_battles[last.battle_id]
       IN  /\ ~has_usable_pokemon(battle.trainer)
           /\ ~has_usable_pokemon(battle.opponent)
           /\ battle.is_over /\ battle.winner = "draw"

\* C20: a flee action outside a WILD battle only narrates a refusal and
\* leaves the battle as it was; in a WILD battle it either succeeds, setting
\* is_over and fled with no winner, after which no further action of the
\* turn executes, or fails and leaves the battle as it was.
C20_FleeStep ==
    /\ \A b \in DOMAIN active_battles : \A side \in Sides : \A roll \in Rolls :
          LET battle == active_battles[b]
              flee == BattleAction("flee", battle[side].battler_id, "none", NoIndex)
              r == _execute_action(battle, flee, roll)
              w == [battle |-> r.battle, turn_log |-> r.messages,
                    switch_messages |-> << >>, raised |-> FALSE]
          IN  /\ ~r.raised
              /\ IF battle.battle_type # "WILD"
                 THEN r.battle = battle /\ Kinds(r.messages) = {"cant_flee"}
                 ELSE \/ /\ Kinds(r.messages) = {"got_away"}
                         /\ r.battle = [battle EXCEPT !.is_over = TRUE, !.fled = TRUE,
                                                      !.winner = "none"]
                         /\ \A a \in ActionInputs(battle, battle[OtherSide(side)].battler_id) :
                               a.move_id \in DOMAIN MovesDB \cup {"none"} =>
                                  ExecuteActions(w, <<flee, a>>, <<roll, roll>>, 2) = w
                      \/ /\ Kinds(r.messages) = {"cant_escape"}
                         /\ r.battle = battle
    /\ (StepOn("process_turn") /\ last'.success) =>
          LET away == {i \in DOMAIN last'.messages : last'.messages[i].kind = "got_away"}
          IN  /\ After.fled = (Before.fled \/ away # {})
              /\ away # {} =>
                    /\ Before.battle_type = "WILD"
                    /\ After.is_over
                    /\ (has_usable_pokemon(After.trainer) /\ has_usable_pokemon(After.opponent))
                          => After.winner = "none" /\ last'.winner = "none"
                    /\ \A i \in away : \A j \in DOMAIN last'.messages :
                          j > i => last'.messages[j].kind \in {"status_damage", "healed"}
              /\ "cant_flee" \in Kinds(last'.messages) => Before.battle_type # "WILD"
              /\ "cant_escape" \in Kinds(last'.messages) =>
                    Before.battle_type = "WILD" /\ away = {}

C20_Flee == [][C20_FleeStep]_vars

\* A turn of a WILD battle in which the trainer got away: the battle is over
\* and fled, with no winner.
C20_Witness ==
    /\ TurnResolved
    /\ "got_away" \in Kinds(last.messages)
    /\ LET battle == active_battles[last.battle_id]
       IN  /\ battle.battle_type = "WILD"
           /\ battle.is_over /\ battle.fled /\ battle.winner = "none"

\* force_switch may succeed: a forced switch is pending for the caller and
\* the target slot is in the party and holds a combatant with HP left.
MaySwitch(battle, battler_id, pos) ==
    /\ battle.phase = "FORCED_SWITCH"
    /\ battle.forced_switch_battler_id = battler_id
    /\ pos >= 0 /\ pos < Len(battle[SideOf(battle, battler_id)].party)
    /\ battle[SideOf(battle, battler_id)].party[pos + 1].current_hp > 0

\* C21: force_switch succeeds exactly when phase = FORCED_SWITCH, the caller
\* is the designated battler and the target slot is in the party with HP
\* left; on success the target is the active slot, phase = WAITING_ACTIONS,
\* forced_switch_battler_id and pending_ai_switch_index are null and the
\* caller has no pending action; otherwise it returns an error and leaves
\* the battle unchanged.
C21_ForceSwitchStep ==
    /\ \A b \in DOMAIN active_battles :
          \A battler_id \in {TrainerId, RivalId, StrangerId, WildId, NpcId} :
             LET battle == active_battles[b]
                 side == SideOf(battle, battler_id)
             IN  \A pos \in -1..Len(battle[side].party) :
                    LET r == ForceSwitchOn(battle, battler_id, pos) IN
                    /\ ~r.raised
                    /\ IF MaySwitch(battle, battler_id, pos)
                       THEN /\ r.error = "none"
                            /\ r.battle[side].active_positions[1] = pos
                            /\ r.battle.phase = "WAITING_ACTIONS"
                            /\ r.battle.forced_switch_battler_id = NoBattler
                            /\ r.battle.pending_ai_switch_index = NoIndex
                            /\ ~HasKey(r.battle.pending_actions, battler_id)
                            /\ Msg("sent_out", battle[side].party[pos + 1].species, "none")
                                  \in Range(r.messages)
                       ELSE r.error # "none" /\ r.battle = battle
    /\ StepOn("force_switch") =>
          /\ last'.error # "IndexError"
          /\ last'.success =>
                /\ Before.phase = "FORCED_SWITCH"
                /\ Before.forced_switch_battler_id = last'.battler_id
                /\ After.phase = "WAITING_ACTIONS"
                /\ After.forced_switch_battler_id = NoBattler
                /\ After.pending_ai_switch_index = NoIndex
                /\ ~HasKey(After.pending_actions, last'.battler_id)
                /\ LET side == SideOf(Before, last'.battler_id)
                       pos == After[side].active_positions[1]
                   IN  /\ pos >= 0 /\ pos < Len(Before[side].party)
                       /\ Before[side].party[pos + 1].current_hp > 0
          /\ ~last'.success => (last'.error # "none" /\ After = Before)

C21_ForceSwitch == [][C21_ForceSwitchStep]_vars

\* A forced switch that went through: the trainer's fainted lead was
\* replaced by the reserve and the battle waits for actions again.
C21_Witness ==
    /\ last.op = "force_switch" /\ last.success /\ Live(last.battle_id)
    /\ Msg("sent_out", "bulba", "none") \in Range(last.switch_messages)
    /\ LET battle == active_battles[last.battle_id]
       IN  /\ battle.trainer.active_positions[1] = 1
           /\ battle.trainer.party[1].current_hp = 0
           /\ battle.phase = "WAITING_ACTIONS"
           /\ battle.forced_switch_battler_id = NoBattler

\* C22: a successful register_action reports as waiting_for exactly the
\* human sides with no pending action (each once, never an AI side) and
\* ready_to_resolve iff there is none; the first side of a PVP battle to
\* register gets false however often it registers, the registration that
\* completes both sides gets true, and against an AI the trainer's
\* registration gets true.
C22_ReadinessStep ==
    (StepOn("register_action") /\ last'.success) =>
        LET missing == {id \in HumanBattlers(After) : ~HasKey(After.pending_actions, id)}
            other == After[OtherSide(SideOf(After, last'.battler_id))]
        IN  /\ Range(last'.waiting_for) = missing
            /\ Len(last'.waiting_for) = Cardinality(missing)
            /\ \A side \in Sides :
                  After[side].is_ai => After[side].battler_id \notin Range(last'.waiting_for)
            /\ last'.ready_to_resolve = (last'.waiting_for = << >>)
            /\ HasKey(After.pending_actions, last'.battler_id)
            /\ other.is_ai => last'.ready_to_resolve
            /\ ~other.is_ai =>
                  (last'.ready_to_resolve = HasKey(Before.pending_actions, other.battler_id))

C22_Readiness == [][C22_ReadinessStep]_vars

\* The registration that completed both sides of a PVP battle, made by the
\* trainer after the rival had registered: ready to resolve.
C22_Witness ==
    /\ last.op = "register_action" /\ last.success /\ Live(last.battle_id)
    /\ last.battler_id = TrainerId
    /\ last.ready_to_resolve /\ last.waiting_for = << >>
    /\ LET battle == active_battles[last.battle_id]
       IN  /\ battle.battle_type = "PVP"
           /\ Len(battle.pending_actions) = 2
           /\ battle.pending_actions[1].key = RivalId

\* C23: register_action, process_turn, force_switch and end_battle on one
\* battle leave every other live session exactly as it was, and so does
\* start_battle; a battle started after an earlier one was ended begins in
\* the fresh initial state of its inputs.
C23_IsolationStep ==
    /\ last'.op \in {"register_action", "process_turn", "force_switch", "end_battle",
                     "start_battle"} =>
          \A other \in DOMAIN active_battles \ {last'.battle_id} :
             /\ other \in DOMAIN active_battles'
             /\ active_battles'[other] = active_battles[other]
    /\ (last'.op = "start_battle" /\ last'.success) =>
          /\ last'.battle_id \notin DOMAIN active_battles
          /\ last'.battle_id \in DOMAIN active_battles'
          /\ \E in \in PairStartInputs :
                active_battles'[last'.battle_id] =
                   NewBattle(last'.battle_id, in[1], in[2], in[3], in[4], NpcId, TRUE)
    /\ last'.op = "end_battle" => last'.battle_id \notin DOMAIN active_battles'

LeadKinds ==
    {"used", "prevented", "locked", "blocks_status", "banned", "unknown_move",
     "used_item", "cant_flee", "got_away", "cant_escape"}

EndOfTurnKinds == {"status_damage", "healed"}

\* The place in the scheduler's order of the action a lead narration
\* belongs to, 0 when no action of the order matches it.
LeadPosition(battle, order, m) ==
    LET type == IF m.kind = "used_item" THEN "item"
                ELSE IF m.kind \in {"cant_flee", "got_away", "cant_escape"} THEN "flee"
                ELSE "move"
        fits == {k \in DOMAIN order :
                   /\ order[k].action_type = type
                   /\ type = "move" =>
                         /\ order[k].move_id = m.what
                         /\ \E i \in DOMAIN battle[SideOf(battle, order[k].battler_id)].party :
                               battle[SideOf(battle, order[k].battler_id)].party[i].species = m.who}
    IN  IF fits = {} THEN 0 ELSE CHOOSE k \in fits : TRUE

\* C24: within a resolved turn the narration of the executed non-switch
\* actions follows the scheduler's order, end-of-turn narration comes after
\* all action narration, a queued AI replacement comes in after end-of-turn
\* (its narration last among the switch narration, no end-of-turn effect on
\* it), the terminal check sees the state after all of these, and the turn
\* ends with pending_actions empty and turn_number incremented.
C24_TurnOrderStep ==
    (StepOn("process_turn") /\ last'.success) =>
        LET msgs == last'.messages
            sw == last'.switch_messages
            leads == {i \in DOMAIN msgs : msgs[i].kind \in LeadKinds}
            pos(i) == LeadPosition(Before, last'.order, msgs[i])
        IN  /\ \A i \in leads : pos(i) > 0
            /\ \A i, j \in leads : i < j => pos(i) < pos(j)
            /\ \A i, j \in DOMAIN msgs :
                  (i < j /\ msgs[i].kind \in EndOfTurnKinds) => msgs[j].kind \in EndOfTurnKinds
            /\ \A i \in DOMAIN sw : sw[i].kind = "sent_out" =>
                  /\ \A j \in DOMAIN sw : j > i => sw[j].who = sw[i].who
                  /\ \A j \in DOMAIN msgs : msgs[j].who # sw[i].who
            /\ (~has_usable_pokemon(After.trainer) \/ ~has_usable_pokemon(After.opponent))
                  => After.is_over
            /\ last'.is_over = After.is_over /\ last'.winner = After.winner
            /\ After.pending_actions = << >>
            /\ After.turn_number = Before.turn_number + 1
            /\ last'.turn_number = Before.turn_number

C24_TurnOrder == [][C24_TurnOrderStep]_vars

\* A turn with two executed moves narrated in scheduler order, the faint of
\* the AI's lead, end-of-turn narration after them and the AI's replacement
\* sent out after that.
C24_Witness ==
    /\ TurnResolved
    /\ Len(last.order) = 2
    /\ last.order[1].battler_id = NpcId /\ last.order[2].battler_id = TrainerId
    /\ Len(last.messages) >= 5
    /\ last.messages[1] = Msg("used", "rat", "tackle")
    /\ Msg("used", "onix", "tackle") \in Range(last.messages)
    /\ Msg("fainted", "rat", "none") \in Range(last.messages)
    /\ last.messages[Len(last.messages)].kind \in EndOfTurnKinds
    /\ last.switch_messages = <<Msg("sent_out", "sash", "none")>>
    /\ active_battles[last.battle_id].opponent.active_positions = <<1>>

\* The tier of an action: switch > item > move > flee.
Tier(action) ==
    IF action.action_type = "switch" THEN 3
    ELSE IF action.action_type = "item" THEN 2
    ELSE IF action.action_type = "move" THEN 1
    ELSE 0

\* C25: in every turn the scheduler puts every switch before every item
\* action, every item action before every move and every move before every
\* flee, whatever the move's priority and the speeds.
C25_StrictTiersStep ==
    (StepOn("process_turn") /\ last'.success) =>
        \A i, j \in DOMAIN last'.order :
           i < j => Tier(last'.order[i]) >= Tier(last'.order[j])

C25_StrictTiers == [][C25_StrictTiersStep]_vars

\* C26: in every state of every live battle, forced_switch_battler_id is set
\* exactly when phase is FORCED_SWITCH, and when set it is the id of one of
\* the two sides.
C26_ForcedSwitchId ==
    \A id \in DOMAIN active_battles :
       LET battle == active_battles[id]
       IN  /\ (battle.forced_switch_battler_id # NoBattler)
                 <=> (battle.phase = "FORCED_SWITCH")
           /\ battle.forced_switch_battler_id # NoBattler =>
                 battle.forced_switch_battler_id
                     \in {battle.trainer.battler_id, battle.opponent.battler_id}

\* A resolved turn has left a forced switch pending for the trainer.
C26_Witness ==
    /\ last.op = "process_turn"
    /\ last.battle_id \in DOMAIN active_battles
    /\ active_battles[last.battle_id].phase = "FORCED_SWITCH"
    /\ active_battles[last.battle_id].forced_switch_battler_id
           = active_battles[last.battle_id].trainer.battler_id
    /\ ~active_battles[last.battle_id].is_over

\* The active positions of a side are valid, distinct party indices.
ValidActive(battler) ==
    /\ \A i \in DOMAIN battler.active_positions :
          battler.active_positions[i] \in 0..(Len(battler.party) - 1)
    /\ \A i, j \in DOMAIN battler.active_positions :
          i # j => battler.active_positions[i] # battler.active_positions[j]

\* C27: between operations of a battle that is not over, each side's active
\* positions are valid distinct party indices, and every active combatant has
\* current_hp > 0 unless a forced switch is pending for its side.
C27_ActiveConscious ==
    \A id \in DOMAIN active_battles :
       LET battle == active_battles[id]
       IN  ~battle.is_over =>
             \A side \in Sides :
                /\ ValidActive(battle[side])
                /\ \A i \in DOMAIN battle[side].active_positions :
                      LET pos == battle[side].active_positions[i]
                      IN  pos \in 0..(Len(battle[side].party) - 1) =>
                            \/ battle[side].party[pos + 1].current_hp > 0
                            \/ /\ battle.phase = "FORCED_SWITCH"
                               /\ battle.forced_switch_battler_id = battle[side].battler_id

\* The narration an executed action of the given type leaves in the turn log.
ActedKinds(action_type) ==
    IF action_type = "move" THEN {"used"}
    ELSE IF action_type = "item" THEN {"used_item"}
    ELSE IF action_type = "flee" THEN {"got_away", "cant_escape", "cant_flee"}
    ELSE {}

\* The side's queued non-switch action of the turn was skipped: nothing of
\* its narration is in the log and no PP of the side was spent.
Skipped(side, action) ==
    /\ \A i \in DOMAIN last'.messages :
          last'.messages[i].kind \in ActedKinds(action.action_type) =>
             /\ action.action_type = "move"
             /\ \A k \in DOMAIN Before[side].party :
                   last'.messages[i].who # Before[side].party[k].species
    /\ \A k \in DOMAIN Before[side].party :
          After[side].party[k].moves = Before[side].party[k].moves

\* C28: a side whose acting combatant is at 0 HP when the turn starts, or for
\* which a forced switch is pending, has its queued move, item or flee
\* skipped (no narration, no PP spent); and within a turn a combatant never
\* uses a move after it has fainted.
C28_FaintedSkippedStep ==
    (StepOn("process_turn") /\ last'.success) =>
        /\ \A side \in Sides : \A n \in DOMAIN last'.order :
              LET battler == Before[side]
                  action == last'.order[n]
                  active_pokemon == get_active_pokemon(battler)
              IN  (/\ action.battler_id = battler.battler_id
                   /\ action.action_type # "switch"
                   /\ \/ Len(active_pokemon) > 0 /\ active_pokemon[1].current_hp <= 0
                      \/ /\ Before.phase = "FORCED_SWITCH"
                         /\ Before.forced_switch_battler_id = battler.battler_id)
                  => Skipped(side, action)
        /\ \A i, j \in DOMAIN last'.messages :
              (i < j /\ last'.messages[i].kind = "fainted") =>
                 ~(/\ last'.messages[j].kind = "used"
                   /\ last'.messages[j].who = last'.messages[i].who)

C28_FaintedSkipped == [][C28_FaintedSkippedStep]_vars

\* C29: a hit whose damage after held-item modifiers is at least the
\* current_hp of a defender under endure leaves the defender at exactly 1 HP
\* when its current_hp is at least 2, with no faint handling, forced switch
\* or wild daze; at current_hp = 1 the damage is not reduced and the defender
\* goes through faint handling.
C29_Endure ==
    \A id \in DOMAIN active_battles : \A side \in Sides :
       LET battle == active_battles[id]
           def_side == OtherSide(side)
           atk_active == ActiveIndices(battle[side])
           def_active == ActiveIndices(battle[def_side])
       IN  (Len(atk_active) > 0 /\ Len(def_active) > 0) =>
           LET attacker == battle[side].party[atk_active[1] + 1]
               defender == battle[def_side].party[def_active[1] + 1]
               known == {attacker.moves[k].move_id : k \in DOMAIN attacker.moves}
                            \cup {"struggle"}
           IN  \A m \in known : \A roll \in Rolls :
               LET action == BattleAction("move", battle[side].battler_id, m, NoIndex)
                   base == IF enhanced THEN CalcDamage(MovesDB[m], roll) ELSE BasicDamage
                   hit == modify_damage(attacker, defender, MovesDB[m], base).damage
                   r == _execute_move(battle, action, roll)
                   after == r.battle[def_side].party[def_active[1] + 1]
               IN  (/\ Msg("used", attacker.species, m) \in Range(r.messages)
                    /\ defender.has_status_manager
                    /\ "endure" \in defender.volatile_statuses
                    /\ defender.current_hp >= 1
                    /\ hit >= defender.current_hp)
                   => IF defender.current_hp >= 2
                      THEN /\ after.current_hp = 1
                           /\ Kinds(r.messages)
                                 \cap {"fainted", "dazed", "must_switch"} = {}
                           /\ r.battle.phase = battle.phase
                           /\ r.battle.forced_switch_battler_id
                                 = battle.forced_switch_battler_id
                           /\ r.battle.pending_ai_switch_index
                                 = battle.pending_ai_switch_index
                           /\ r.battle.wild_dazed = battle.wild_dazed
                           /\ r.battle.is_over = battle.is_over
                      ELSE /\ "endured" \notin Kinds(r.messages)
                           /\ Kinds(r.messages) \cap {"fainted", "dazed"} # {}
                           /\ after.current_hp = IF r.battle.wild_dazed THEN 1 ELSE 0

\* A turn in which a combatant under endure took a lethal hit and stayed at
\* 1 HP, still active, with no forced switch.
C29_Witness ==
    /\ TurnResolved
    /\ Msg("endured", "tough", "none") \in Range(last.messages)
    /\ LET battle == active_battles[last.battle_id]
       IN  /\ battle.trainer.party[1].species = "tough"
           /\ battle.trainer.party[1].current_hp = 1
           /\ battle.trainer.active_positions = <<0>>
           /\ battle.phase # "FORCED_SWITCH"
           /\ ~battle.is_over

\* The actions a process_turn call resolved: the sorted order, or the stored
\* actions when the sort raised.
ResolvedActions ==
    IF last'.error = "AttributeError" THEN DictValues(After.pending_actions)
    ELSE last'.order

\* C30: at resolve time an AI side with no stored action gets exactly one
\* synthesized move action, on a move of its active combatant with pp > 0
\* when there is one and on struggle exactly when there is none; a stored
\* action of an AI side is resolved as it was stored.
C30_AIActionStep ==
    StepOn("process_turn") =>
        \A side \in Sides :
           LET battler == Before[side]
               active_pokemon == get_active_pokemon(battler)
               mine == {n \in DOMAIN ResolvedActions :
                           ResolvedActions[n].battler_id = battler.battler_id}
           IN  (battler.is_ai /\ Len(active_pokemon) > 0) =>
               LET moves == active_pokemon[1].moves
                   usable == {moves[k].move_id : k \in {j \in DOMAIN moves : moves[j].pp > 0}}
               IN  /\ Cardinality(mine) = 1
                   /\ \A n \in mine :
                         IF HasKey(Before.pending_actions, battler.battler_id)
                         THEN ResolvedActions[n]
                                 = DictGet(Before.pending_actions, battler.battler_id)
                         ELSE /\ ResolvedActions[n].action_type = "move"
                              /\ usable # {} => ResolvedActions[n].move_id \in usable
                              /\ (ResolvedActions[n].move_id = "struggle")
                                    <=> (\A k \in DOMAIN moves : moves[k].pp = 0)

C30_AIAction == [][C30_AIActionStep]_vars

\* A resolved turn in which the AI, its active combatant out of PP, struggled.
C30_Witness ==
    /\ TurnResolved
    /\ Msg("used", "rat", "struggle") \in Range(last.messages)
    /\ \E n \in DOMAIN last.order :
          /\ last.order[n].battler_id = active_battles[last.battle_id].opponent.battler_id
          /\ last.order[n].move_id = "struggle"
    /\ active_battles[last.battle_id].opponent.is_ai

\* A resolved turn of a battle whose only action was the trainer's switch,
\* which was carried out; the slot it brought in.
EntryTurn ==
    /\ StepOn("process_turn") /\ last'.success
    /\ Len(last'.order) = 1
    /\ last'.order[1].action_type = "switch"
    /\ last'.order[1].battler_id = Before.trainer.battler_id
    /\ "go" \in Kinds(last'.switch_messages)

EntrySlot == last'.order[1].switch_to_position + 1

\* The rock product R of a combatant's types, as <<num, den>>.
RockR(pokemon) == RockEff(pokemon.types, 1)

\* ceil(max_hp / 8 * R), at least 1 when R > 0 and 0 when R = 0.
StatedRockDamage(pokemon) ==
    IF RockR(pokemon)[1] = 0 THEN 0
    ELSE Max(1, CeilDiv(pokemon.max_hp * RockR(pokemon)[1], 8 * RockR(pokemon)[2]))

\* floor(max(1, floor(max_hp / 8)) * R), at least 1 when R > 0 and 0 when R = 0.
FlooredRockDamage(pokemon) ==
    IF RockR(pokemon)[1] = 0 THEN 0
    ELSE Max(1, (Max(1, pokemon.max_hp \div 8) * RockR(pokemon)[1]) \div RockR(pokemon)[2])

\* The HP of the entrant after an entry onto stealth rock alone dealt d.
RockEntryLoses(d) ==
    (EntryTurn /\ Before.trainer_hazards = [NoHazards EXCEPT !["stealth_rock"] = 1]) =>
        LET old == Before.trainer.party[EntrySlot]
            new == After.trainer.party[EntrySlot]
            told == {i \in DOMAIN last'.switch_messages :
                        last'.switch_messages[i].kind = "stealth_rock"}
        IN  /\ new.current_hp = Max(0, old.current_hp - d[old.species])
            /\ Cardinality(told) = IF d[old.species] > 0 THEN 1 ELSE 0

\* C31 as stated: stealth rock entry damage is ceil(max_hp / 8 * R), at
\* least 1 when R > 0 and 0 when R = 0.
C31_StatedRockStep ==
    RockEntryLoses([sp \in {"lead", "entrant"} |->
        StatedRockDamage(IF sp = "lead" THEN Before.trainer.party[1]
                         ELSE Before.trainer.party[2])])

C31_StatedRock == [][C31_StatedRockStep]_vars

\* C31 amended: stealth rock entry damage is
\* floor(max(1, floor(max_hp / 8)) * R), at least 1 when R > 0, and 0 (no
\* HP change, no narration) when R = 0.
C31_FlooredRockStep ==
    RockEntryLoses([sp \in {"lead", "entrant"} |->
        FlooredRockDamage(IF sp = "lead" THEN Before.trainer.party[1]
                          ELSE Before.trainer.party[2])])

C31_FlooredRock == [][C31_FlooredRockStep]_vars

\* An entrant with max_hp 100 and a neutral rock matchup has come in onto
\* stealth rock alone and stands at 88 HP.
C31_Witness ==
    /\ TurnResolved
    /\ Kinds(last.switch_messages) = {"withdrew", "go", "stealth_rock"}
    /\ LET battle == active_battles[last.battle_id]
       IN  /\ battle.trainer_hazards = [NoHazards EXCEPT !["stealth_rock"] = 1]
           /\ battle.trainer.active_positions = <<1>>
           /\ battle.trainer.party[2].max_hp = 100
           /\ battle.trainer.party[2].types = <<"normal">>
           /\ battle.trainer.party[2].current_hp = 88

\* The number of narrations of a kind in the switch messages of the step.
Told(kind) ==
    Cardinality({i \in DOMAIN last'.switch_messages : last'.switch_messages[i].kind = kind})

\* floor(max_hp / 8), / 6, / 4 for 1, 2, 3 layers, at least 1.
StatedSpikesDamage(pokemon, layers) ==
    Max(1, pokemon.max_hp \div (IF layers = 1 THEN 8 ELSE IF layers = 2 THEN 6 ELSE 4))

Grounded(pokemon) ==
    /\ \A i \in DOMAIN pokemon.types : pokemon.types[i] # "flying"
    /\ pokemon.ability # "levitate"

\* C32: one entry applies each hazard kind of the side once: the rock damage
\* when stealth rock is present, the spikes damage floor(max_hp / 8), / 6,
\* / 4 (at least 1) for 1, 2, 3 layers when the entrant is grounded, each
\* narrated at most once, and the HP loss is their sum.
C32_HazardsOnceStep ==
    EntryTurn =>
        LET old == Before.trainer.party[EntrySlot]
            new == After.trainer.party[EntrySlot]
            hz == Before.trainer_hazards
            rock == IF hz["stealth_rock"] > 0 THEN FlooredRockDamage(old) ELSE 0
            spikes == IF hz["spikes"] > 0 /\ Grounded(old)
                      THEN StatedSpikesDamage(old, hz["spikes"]) ELSE 0
        IN  /\ new.current_hp = Max(0, old.current_hp - (rock + spikes))
            /\ Told("stealth_rock") = IF rock > 0 THEN 1 ELSE 0
            /\ Told("spikes") = IF spikes > 0 THEN 1 ELSE 0
            /\ Told("absorbed") + Told("status") <= 1
            /\ Told("speed_fell") = IF hz["sticky_web"] > 0 /\ Grounded(old) THEN 1 ELSE 0
            /\ new.speed_stage >= old.speed_stage - 1

C32_HazardsOnce == [][C32_HazardsOnceStep]_vars

\* A grounded entrant with max_hp 100 and a neutral rock matchup has come in
\* at full HP onto stealth rock and two layers of spikes: it lost 12 + 16
\* and stands at 72 HP, with both hazards narrated.
C32_Witness ==
    /\ TurnResolved
    /\ Kinds(last.switch_messages) = {"withdrew", "go", "stealth_rock", "spikes"}
    /\ Len(last.switch_messages) = 4
    /\ LET battle == active_battles[last.battle_id]
       IN  /\ battle.trainer_hazards
                 = [NoHazards EXCEPT !["stealth_rock"] = 1, !["spikes"] = 2]
           /\ battle.trainer.active_positions = <<1>>
           /\ battle.trainer.party[2].max_hp = 100
           /\ battle.trainer.party[2].types = <<"normal">>
           /\ battle.trainer.party[2].ability = "none"
           /\ battle.trainer.party[2].current_hp = 72

\* C33: on entry onto toxic spikes a grounded poison type clears the layers
\* of its own side and takes no status; a grounded steel type takes no status
\* and the layers stay; a non-grounded entrant neither clears nor is
\* poisoned; any other grounded entrant whose status manager allows it takes
\* psn with 1 layer and tox with 2 or more; the other side's map is unchanged.
C33_ToxicSpikesStep ==
    EntryTurn =>
        LET old == Before.trainer.party[EntrySlot]
            new == After.trainer.party[EntrySlot]
            hz == Before.trainer_hazards
            layers == hz["toxic_spikes"]
            poison == \E i \in DOMAIN old.types : old.types[i] = "poison"
            steel == \E i \in DOMAIN old.types : old.types[i] = "steel"
        IN  /\ After.opponent_hazards = Before.opponent_hazards
            /\ IF layers > 0 /\ Grounded(old) /\ poison
               THEN /\ After.trainer_hazards = [hz EXCEPT !["toxic_spikes"] = 0]
                    /\ new.major_status = old.major_status
                    /\ Told("absorbed") = 1 /\ Told("status") = 0
               ELSE /\ After.trainer_hazards = hz
                    /\ Told("absorbed") = 0
                    /\ IF layers > 0 /\ Grounded(old) /\ ~steel
                          /\ old.has_status_manager /\ old.major_status = "none"
                       THEN /\ new.major_status = IF layers = 1 THEN "psn" ELSE "tox"
                            /\ Told("status") = 1
                       ELSE /\ new.major_status = old.major_status
                            /\ Told("status") = 0

C33_ToxicSpikes == [][C33_ToxicSpikesStep]_vars

\* A grounded poison type has come in onto toxic spikes: the layers are gone
\* from its side, it has no status, and the other side's map is whole.
C33_Witness ==
    /\ TurnResolved
    /\ "absorbed" \in Kinds(last.switch_messages)
    /\ LET battle == active_battles[last.battle_id]
       IN  /\ battle.trainer_hazards = [NoHazards EXCEPT !["sticky_web"] = 1]
           /\ battle.opponent_hazards["toxic_spikes"] = 1
           /\ battle.trainer.active_positions = <<1>>
           /\ battle.trainer.party[2].types = <<"poison">>
           /\ battle.trainer.party[2].ability = "none"
           /\ battle.trainer.party[2].major_status = "none"

\* C34: an entry onto sticky web lowers a grounded entrant's speed stage by 1
\* and not below -6, leaves a non-grounded entrant's stage and every other
\* combatant's stage unchanged, and every stage stays within [-6, +6].
C34_StickyWebStep ==
    /\ \A c \in Combatants(active_battles') :
          active_battles'[c[1]][c[2]].party[c[3]].speed_stage \in -6..6
    /\ EntryTurn =>
          LET hz == Before.trainer_hazards IN
          /\ \A k \in DOMAIN Before.trainer.party :
                LET old == Before.trainer.party[k]
                    new == After.trainer.party[k]
                IN  new.speed_stage =
                       IF k = EntrySlot /\ hz["sticky_web"] > 0 /\ Grounded(old)
                       THEN Max(-6, old.speed_stage - 1)
                       ELSE old.speed_stage
          /\ \A k \in DOMAIN Before.opponent.party :
                After.opponent.party[k].speed_stage = Before.opponent.party[k].speed_stage

C34_StickyWeb == [][C34_StickyWebStep]_vars

\* A grounded entrant has come in onto sticky web and its speed stage, -5 at
\* the start, stands at the floor -6; the lead's stage is untouched.
C34_Witness ==
    /\ TurnResolved
    /\ "speed_fell" \in Kinds(last.switch_messages)
    /\ LET battle == active_battles[last.battle_id]
       IN  /\ battle.trainer_hazards = [NoHazards EXCEPT !["sticky_web"] = 1]
           /\ battle.turn_number = 3
           /\ battle.trainer.active_positions = <<1>>
           /\ battle.trainer.party[1].speed_stage = 0
           /\ battle.trainer.party[2].speed_stage = -6

\* C35: a switch to a usable reserve that the side of a fainted active
\* combatant has stored (registered while its forced switch was pending)
\* takes effect in the next resolved turn: the reserve is that side's active
\* combatant afterwards and the fainted combatant has left the field.
C35_RegisteredSwitchStep ==
    (StepOn("process_turn") /\ last'.success) =>
        \A side \in Sides :
           LET battler == Before[side]
               active_pokemon == get_active_pokemon(battler)
           IN  (/\ ~Before.is_over /\ ~Before.wild_dazed
                /\ ~battler.is_ai
                /\ Len(active_pokemon) = 1
                /\ active_pokemon[1].current_hp = 0
                /\ HasKey(Before.pending_actions, battler.battler_id)
                /\ LET action == DictGet(Before.pending_actions, battler.battler_id)
                   IN  /\ action.action_type = "switch"
                       /\ action.switch_to_position \in 0..(Len(battler.party) - 1)
                       /\ battler.party[action.switch_to_position + 1].current_hp > 0)
               => /\ After[side].active_positions[1]
                       = DictGet(Before.pending_actions, battler.battler_id).switch_to_position
                  /\ After[side].active_positions[1] # battler.active_positions[1]

C35_RegisteredSwitch == [][C35_RegisteredSwitchStep]_vars

\* C36: a register_action call that returns an error leaves the battle as
\* it was.
C36_ErrorNoChangeStep ==
    (StepOn("register_action") /\ last'.error # "none") => After = Before

C36_ErrorNoChange == [][C36_ErrorNoChangeStep]_vars

\* The battle as the action loop of process_turn leaves it, before the
\* end-of-turn effects, the automatic switch and the terminal check.
AfterActionLoop(battle, pick_trainer, pick_opponent, rolls) ==
    Let(generate_ai_action(battle, "trainer", pick_trainer), LAMBDA b0 :
    Let(generate_ai_action(b0, "opponent", pick_opponent), LAMBDA b1 :
    Let(DictValues(b1.pending_actions), LAMBDA pending :
    IF SortRaises(pending) THEN b1
    ELSE ExecuteActions([battle |-> b1, turn_log |-> << >>, switch_messages |-> << >>,
                         raised |-> FALSE], _sort_actions(b1, pending), rolls, 1).battle)))

\* Within one process_turn: a battle the action loop leaves over is over
\* with the same winner and fled flag when the call returns.
C37_FinalWithinTurn ==
    \A b \in DOMAIN active_battles :
       \A pt \in AIPicks(active_battles[b], "trainer"),
          po \in AIPicks(active_battles[b], "opponent"), r1 \in Rolls, r2 \in Rolls :
          \E mid \in {AfterActionLoop(active_battles[b], pt, po, <<r1, r2>>)} :
             mid.is_over =>
                \E r \in {ProcessTurnOn(active_battles[b], pt, po, <<r1, r2>>)} :
                   /\ r.battle.is_over
                   /\ r.battle.winner = mid.winner
                   /\ r.battle.fled = mid.fled

\* Across calls: no operation on a battle that is over changes is_over,
\* winner or fled.
C37_FinalAcrossCallsStep ==
    \A b \in DOMAIN active_battles \cap DOMAIN active_battles' :
       active_battles[b].is_over =>
          /\ active_battles'[b].is_over
          /\ active_battles'[b].winner = active_battles[b].winner
          /\ active_battles'[b].fled = active_battles[b].fled

\* C37: once a battle is over it stays over and its winner and fled flag
\* never change, neither later in the same process_turn nor through any
\* later call on that battle.
C37_OverIsFinal == [](C37_FinalWithinTurn) /\ [][C37_FinalAcrossCallsStep]_vars

\* C38: once the wild combatant is dazed, no operation resets wild_dazed or
\* moves phase away from DAZED, and every later process_turn that returns
\* narrates nothing, leaves both sides as they were, empties pending_actions
\* and increments turn_number.
C38_DazedAbsorbingStep ==
    \A b \in DOMAIN active_battles \cap DOMAIN active_battles' :
       active_battles[b].wild_dazed =>
          /\ active_battles'[b].wild_dazed
          /\ active_battles'[b].phase = "DAZED"
          /\ (StepOn("process_turn") /\ last'.battle_id = b /\ last'.success) =>
                /\ last'.messages = << >>
                /\ last'.switch_messages = << >>
                /\ active_battles'[b].trainer = active_battles[b].trainer
                /\ active_battles'[b].opponent = active_battles[b].opponent
                /\ active_battles'[b].pending_actions = << >>
                /\ active_battles'[b].turn_number = active_battles[b].turn_number + 1

C38_DazedAbsorbing == [][C38_DazedAbsorbingStep]_vars

\* A turn resolved on a battle whose wild combatant was dazed before it: two
\* actions were ordered, none is narrated, and the battle is still dazed.
C38_Witness ==
    /\ TurnResolved
    /\ Len(last.order) = 2
    /\ last.messages = << >>
    /\ active_battles[last.battle_id].wild_dazed
    /\ active_battles[last.battle_id].phase = "DAZED"
    /\ active_battles[last.battle_id].pending_actions = << >>

\* A forced switch is pending on the battle for a human side that has an
\* active combatant at 0 HP and a party slot for which force_switch succeeds.
Resolvable(battle) ==
    /\ battle.forced_switch_battler_id \in HumanBattlers(battle)
    /\ LET battler == battle[SideOf(battle, battle.forced_switch_battler_id)]
       IN  /\ \E k \in DOMAIN battler.active_positions :
                 battler.party[battler.active_positions[k] + 1].current_hp = 0
           /\ \E slot \in 0..(Len(battler.party) - 1) :
                 \E r \in {ForceSwitchOn(battle, battle.forced_switch_battler_id, slot)} :
                    r.error = "none" /\ ~r.raised

\* The battler a pending forced switch designates is an AI side.
AIDesignated(battle) ==
    /\ battle.phase = "FORCED_SWITCH"
    /\ \E side \in Sides :
          battle[side].is_ai /\ battle[side].battler_id = battle.forced_switch_battler_id

\* C39: after a process_turn that returns, a battle in phase FORCED_SWITCH
\* that is not over designates a human side with an active combatant at 0 HP
\* and a slot for which force_switch succeeds, and no AI side is designated.
C39_ForcedSwitchResolvable ==
    TurnResolved =>
       LET battle == active_battles[last.battle_id]
       IN  /\ (battle.phase = "FORCED_SWITCH" /\ ~battle.is_over) => Resolvable(battle)
           /\ ~AIDesignated(battle)

\* C40: after every process_turn call on an existing battle pending_actions
\* is empty and pending_ai_switch_index is null.
C40_NothingCarriedOver ==
    (last.op = "process_turn" /\ Live(last.battle_id)) =>
       /\ active_battles[last.battle_id].pending_actions = << >>
       /\ active_battles[last.battle_id].pending_ai_switch_index = NoIndex

====
